---- MODULE Spec2Model ----
(***************************************************************************)
(* Model of the SurfMate content script (src/content.js): the two-level    *)
(* keyboard navigation engine.  The program state is the single `state`    *)
(* object of content.js; the environment is the labeling round trip        *)
(* (chrome.runtime.sendMessage), the timers the script arms, the messages  *)
(* of the popup/background and the key events of the page.                 *)
(*                                                                         *)
(* Handlers are written as operators over a "world" record w that holds    *)
(* the state object and the script's pending continuations and timers, so  *)
(* that one handler can call another exactly as the source does.  A       *)
(* JavaScript exception that leaves a handler is modelled by returning the *)
(* world as it was when the exception was thrown.                          *)
(***************************************************************************)
EXTENDS Integers, Sequences, FiniteSets, TLC

VARIABLES
    state,            \* the `state` object of content.js (fields modelled below)
    pending,          \* outstanding chrome.runtime.sendMessage calls, oldest first
    overlayTimers,    \* armed 250 ms overlay-removal timers of deactivate()
    reactivateTimers, \* armed 500 ms re-activation timers of observeChanges()
    storageLoaded,    \* has the chrome.storage callback of loadState() run
    entry,            \* what was there when the container, and Follow mode, was entered
    probe,            \* one element of a document, its generated selector, what it resolves to
    background,       \* the service worker: settings, page cache, request queue
    popup,            \* the popup's fields, and chrome.storage.local
    layout            \* the annotation boxes collected for the overlap resolution

vars == <<state, pending, overlayTimers, reactivateTimers, storageLoaded, entry, probe,
          background, popup, layout>>

(***************************************************************************)
(* Bounds of the model.                                                    *)
(***************************************************************************)
MaxContainers == 10   \* container nodes of the page (more than the 9 digit keys)
MaxElements   == 36   \* interactive elements of the largest container
MidElements   == 15   \* interactive elements of the middle-sized container
MaxPending    == 2    \* outstanding sendMessage calls
MaxTimers     == 1    \* armed overlay-removal timers
MaxReactivate == 1    \* armed re-activation timers
MaxTrail      == 2    \* breadcrumb entries
MaxMacro      == 1    \* recorded macro steps
MaxQuery      == 2    \* characters of a Follow-mode query typed key by key
MaxMatchQuery == 5    \* characters of a Follow-mode query that is drawn at once
MaxText       == 6    \* characters of a label that is drawn
MaxQueue      == 3    \* unsettled links of the service worker's promise chain
MaxAge        == 6    \* minutes a cache entry is followed for
MaxDupHints   == 1    \* copies of one identical hint node kept on the overlay

(***************************************************************************)
(* Keys (content.js 106-116).  A key is a one-character string.            *)
(***************************************************************************)
NUMBERS == <<"1", "2", "3", "4", "5", "6", "7", "8", "9">>
LETTERS == <<"a", "b", "c", "d", "e", "f", "g", "h", "i", "j", "k", "l", "m",
             "n", "o", "p", "q", "r", "s", "t", "u", "v", "w", "x", "y", "z">>
EXTENDED_KEYS == <<"A", "B", "C", "D", "E", "F", "G", "H", "I", "J", "K", "L", "M",
                   "N", "O", "P", "Q", "R", "S", "T", "U", "V", "W", "X", "Y", "Z">>
ALL_KEYS == NUMBERS \o LETTERS \o EXTENDED_KEYS

MODES == [NORMAL |-> "normal", FOLLOW |-> "follow", COMMAND |-> "command"]

Range(f) == {f[i] : i \in DOMAIN f}
Min(a, b) == IF a < b THEN a ELSE b
Max(a, b) == IF a > b THEN a ELSE b
Without(seq, i) == SubSeq(seq, 1, i - 1) \o SubSeq(seq, i + 1, Len(seq))

\* String.prototype.toLowerCase on one key
toLowerCase(k) ==
    IF \E i \in 1..Len(EXTENDED_KEYS) : EXTENDED_KEYS[i] = k
    THEN LETTERS[CHOOSE i \in 1..Len(EXTENDED_KEYS) : EXTENDED_KEYS[i] = k]
    ELSE k

\* toLowerCase on a text (a sequence of characters)
LowerText(t) == [i \in 1..Len(t) |-> toLowerCase(t[i])]

(***************************************************************************)
(* The page.  A node or a selector is a pair <<c, j>>: container node c    *)
(* (j = 0) or the j-th interactive element, in document order, inside      *)
(* container node c.  The page does not change while the script runs.      *)
(***************************************************************************)
NoNode == <<0, 0>>
FakeContainer    == MaxContainers + 1   \* a node with one descendant
MissingContainer == MaxContainers + 2   \* a selector that matches nothing
BigContainer     == MaxContainers + 3   \* the node with the most elements
MidContainer     == MaxContainers + 4   \* a node with MidElements elements
ClassyContainer  == MaxContainers + 5   \* a node with an element of class 'md:flex'
MalformedContainer == MaxContainers + 6 \* a selector that is not selector syntax

\* number of interactive elements inside container node c
ElementCount(c) ==
    IF c \in 1..MaxContainers THEN 2
    ELSE IF c = FakeContainer THEN 1
    ELSE IF c = BigContainer THEN MaxElements
    ELSE IF c = MidContainer THEN MidElements
    ELSE IF c = ClassyContainer THEN 3
    ELSE 0

\* containerEl.querySelectorAll('*').length
DescendantCount(c) == ElementCount(c)

\* document.contains(node)
DocumentContains(node) ==
    /\ node[1] \in (1..FakeContainer) \cup {BigContainer, MidContainer, ClassyContainer}
    /\ node[2] \in 0..ElementCount(node[1])

\* the selectors document.querySelector(All) rejects with a SyntaxError: the
\* one generateSimpleSelector builds for the second element of
\* ClassyContainer, 'button.md:flex', and a malformed one of the collaborator
InvalidSelector(selector) ==
    selector \in {<<ClassyContainer, 2>>, <<MalformedContainer, 0>>}

\* document.querySelectorAll(selector) for a selector it accepts, in document
\* order
DocQuerySelectorAll(selector) ==
    IF DocumentContains(selector) /\ ~InvalidSelector(selector) THEN <<selector>> ELSE <<>>

\* element.tagName of an interactive element
TagName(node) ==
    CASE node[2] % 3 = 1 -> "a"
      [] node[2] % 3 = 2 -> "button"
      [] OTHER           -> "input"

\* getElementText(el), already truncated
ElementText(node) == IF node[2] % 2 = 1 THEN <<"a", "b">> ELSE <<"b">>

\* el.getBoundingClientRect(): one element per row, 30 px apart
BoundingRect(node) == [top |-> 30 * node[2], left |-> 10, width |-> 40, height |-> 20]

NoContainer == [selector |-> NoNode, label |-> <<>>, type |-> ""]
Undefined   == [undefined |-> TRUE]

Container(c, label) == [selector |-> <<c, 0>>, label |-> label, type |-> "section"]

(***************************************************************************)
(* What the labeling collaborator may answer to analyzePage.               *)
(***************************************************************************)
\* the label the collaborator gives container node c
ContainerLabel(c) == IF c % 2 = 1 THEN <<"a", "b">> ELSE <<"b">>

\* every container node of the page, after a selector that matches nothing
\* and a node too small to be a container; one standalone link
FullPage ==
    [kind |-> "ok",
     containers |-> <<Container(MissingContainer, <<"a">>), Container(1, ContainerLabel(1)),
                      Container(FakeContainer, <<"b">>)>>
                    \o [i \in 1..(MaxContainers - 1) |-> Container(i + 1, ContainerLabel(i + 1))],
     standalone |-> <<[selector |-> <<2, 1>>, label |-> <<"a", "a">>, type |-> "link"]>>]
\* another answer for the same page: two containers, in another order
OtherPage ==
    [kind |-> "ok",
     containers |-> <<Container(2, ContainerLabel(2)), Container(1, ContainerLabel(1))>>,
     standalone |-> <<>>]
\* an answer that names the largest container first
BigPage ==
    [kind |-> "ok",
     containers |-> <<Container(BigContainer, <<"a">>), Container(1, ContainerLabel(1))>>,
     standalone |-> <<>>]
\* three containers, two of them with the same label
FollowPage ==
    [kind |-> "ok",
     containers |-> [i \in 1..3 |-> Container(i, ContainerLabel(i))],
     standalone |-> <<>>]
\* an answer that names the middle-sized container first
MidPage ==
    [kind |-> "ok",
     containers |-> <<Container(MidContainer, <<"b">>), Container(1, ContainerLabel(1))>>,
     standalone |-> <<>>]
\* an answer with a selector that matches nothing, a malformed selector and the
\* container with the element of class 'md:flex'
ClassyPage ==
    [kind |-> "ok",
     containers |-> <<Container(MissingContainer, <<"a">>), Container(MalformedContainer, <<"a">>),
                      Container(ClassyContainer, <<"b">>), Container(1, ContainerLabel(1))>>,
     standalone |-> <<>>]
NothingFound == [kind |-> "ok", containers |-> <<>>, standalone |-> <<>>]
ErrorResponse == [kind |-> "error", containers |-> <<>>, standalone |-> <<>>]
Rejected == [kind |-> "throw", containers |-> <<>>, standalone |-> <<>>]

Responses == {FullPage, OtherPage, NothingFound, ErrorResponse, Rejected}

(***************************************************************************)
(* Selector resolution (content.js 130-195) against the page above.        *)
(***************************************************************************)
queryElementSafe(selector) ==
    IF InvalidSelector(selector) THEN NoNode   \* SyntaxError, caught by sanitizeSelector
    ELSE IF DocQuerySelectorAll(selector) # <<>> THEN DocQuerySelectorAll(selector)[1]
    ELSE NoNode

(***************************************************************************)
(* Selector generation and resolution on a document (content.js 130-195,   *)
(* 1681-1724, 3552-3594).  A document is the sequence of the children of   *)
(* body; a child has a tag, an id, a class list and children of its own,   *)
(* which are leaves.  An element is named by its path of child numbers     *)
(* from body.  A selector is the sequence of its compound selectors, which *)
(* are joined by ' > '; a compound has a tag (or none), an id (or none),   *)
(* classes and an :nth-child index (0: none).                              *)
(***************************************************************************)
Body == <<>>
NullElement == <<0>>
NullSelector == <<>>

Compound(tag, id, classes, nth) == [tag |-> tag, id |-> id, classes |-> classes, nth |-> nth]

NodeAt(doc, el) == IF Len(el) = 1 THEN doc[el[1]] ELSE doc[el[1]].children[el[2]]

\* element.parentElement
ParentElement(el) == SubSeq(el, 1, Len(el) - 1)

\* parent.children, in document order
ChildrenOf(doc, parent) ==
    IF parent = Body THEN [i \in 1..Len(doc) |-> <<i>>]
    ELSE IF Len(parent) = 1
         THEN [j \in 1..Len(doc[parent[1]].children) |-> <<parent[1], j>>]
         ELSE <<>>

\* every element under body, in document order
RECURSIVE DocumentOrderFrom(_, _)
DocumentOrderFrom(doc, i) ==
    IF i > Len(doc) THEN <<>>
    ELSE <<<<i>>>> \o ChildrenOf(doc, <<i>>) \o DocumentOrderFrom(doc, i + 1)

DocumentOrder(doc) == DocumentOrderFrom(doc, 1)

\* /^[a-zA-Z][\w-]*$/.test(id), the test of generateSelector
IsSimpleId(id) == id \in {"x"}

\* names that are CSS identifiers: 'md:flex' reads as class md with the unknown
\* pseudo-class :flex, and '1x' begins with a digit
IsIdentifier(name) == name \notin {"md:flex", "1x"}

\* does the selector parser accept the selector
ValidSyntax(selector) ==
    /\ selector # <<>>
    /\ \A p \in DOMAIN selector :
          /\ selector[p].id # "" => IsIdentifier(selector[p].id)
          /\ \A c \in DOMAIN selector[p].classes : IsIdentifier(selector[p].classes[c])

\* does the element match one compound selector
CompoundMatches(doc, el, compound) ==
    LET node == NodeAt(doc, el)
    IN  /\ compound.tag # "" => node.tag = compound.tag
        /\ compound.id # "" => node.id = compound.id
        /\ Range(compound.classes) \subseteq Range(node.classes)
        /\ compound.nth # 0 => el[Len(el)] = compound.nth

\* does the element match the selector: child combinators only
RECURSIVE SelectorMatches(_, _, _)
SelectorMatches(doc, el, selector) ==
    /\ el # Body
    /\ CompoundMatches(doc, el, selector[Len(selector)])
    /\ Len(selector) > 1 =>
          SelectorMatches(doc, ParentElement(el), SubSeq(selector, 1, Len(selector) - 1))

\* doc.querySelectorAll(selector) for a selector the parser accepts
querySelectorAll(doc, selector) ==
    SelectSeq(DocumentOrder(doc), LAMBDA el : SelectorMatches(doc, el, selector))

\* does `doc.querySelector(selector)` inside try/catch find an element
Finds(doc, selector) == ValidSyntax(selector) /\ querySelectorAll(doc, selector) # <<>>

\* sanitizeSelector(selector, doc)
sanitizeSelector(selector, doc) ==
    LET sanitized == [p \in DOMAIN selector |-> [selector[p] EXCEPT !.nth = 0]]
        parts == sanitized
        shortSelector == SubSeq(parts, Len(parts) - 1, Len(parts))
        lastPart == SubSeq(parts, Len(parts), Len(parts))
    IN  IF selector = NullSelector THEN NullSelector
        ELSE IF Finds(doc, selector) THEN selector
        ELSE IF sanitized = selector THEN NullSelector
        ELSE IF Finds(doc, sanitized) THEN sanitized
        ELSE IF Len(parts) > 2 /\ Finds(doc, shortSelector) THEN shortSelector
        ELSE IF Len(parts) > 2 /\ Finds(doc, lastPart) THEN lastPart
        ELSE NullSelector

\* queryElementSafe(selector) on the document doc
queryElementSafeIn(selector, doc) ==
    LET sanitized == sanitizeSelector(selector, doc)
    IN  IF sanitized = NullSelector THEN NullElement
        ELSE querySelectorAll(doc, sanitized)[1]

\* the first two entries of a class list
FirstTwo(classes) == SubSeq(classes, 1, Min(2, Len(classes)))

\* the loop of generateSimpleSelector, from current upwards
RECURSIVE SimplePathFrom(_, _, _, _)
SimplePathFrom(doc, current, container, path) ==
    IF current = Body \/ current = container THEN path
    ELSE LET node == NodeAt(doc, current)
             withId == <<Compound(node.tag, node.id, <<>>, 0)>> \o path
             compound == IF node.classes # <<>>
                         THEN Compound(node.tag, "", FirstTwo(node.classes), 0)
                         ELSE Compound(node.tag, "", <<>>, current[Len(current)])
             longer == <<compound>> \o path
         IN  IF node.id # "" THEN withId
             ELSE IF Len(longer) >= 5 THEN longer
             ELSE SimplePathFrom(doc, ParentElement(current), container, longer)

\* generateSimpleSelector(element, container)
generateSimpleSelector(doc, element, container) ==
    IF NodeAt(doc, element).id # "" THEN <<Compound("", NodeAt(doc, element).id, <<>>, 0)>>
    ELSE SimplePathFrom(doc, element, container, <<>>)

\* the class names generateSelector keeps: not those that begin with active,
\* hover, focus or disabled
KeptClasses(classes) ==
    FirstTwo(SelectSeq(classes, LAMBDA c : c \notin {"active", "hover", "focus", "disabled"}))

\* the loop of generateSelector, from current upwards
RECURSIVE PagePathFrom(_, _, _)
PagePathFrom(doc, current, path) ==
    IF current = Body THEN path
    ELSE LET node == NodeAt(doc, current)
             siblings == SelectSeq(ChildrenOf(doc, ParentElement(current)),
                                   LAMBDA e : NodeAt(doc, e).tag = node.tag)
             index == CHOOSE i \in DOMAIN siblings : siblings[i] = current
             compound == Compound(node.tag, "", KeptClasses(node.classes),
                                  IF Len(siblings) > 1 THEN index ELSE 0)
             longer == <<compound>> \o path
         IN  IF IsSimpleId(node.id) THEN <<Compound("", node.id, <<>>, 0)>> \o path
             ELSE IF Len(longer) > 4 THEN longer
             ELSE PagePathFrom(doc, ParentElement(current), longer)

\* generateSelector(el)
generateSelector(doc, el) ==
    IF IsSimpleId(NodeAt(doc, el).id) THEN <<Compound("", NodeAt(doc, el).id, <<>>, 0)>>
    ELSE PagePathFrom(doc, el, <<>>)

(***************************************************************************)
(* The service worker (background.js): the settings it mirrors from        *)
(* chrome.storage, the page cache and the promise chain that runs one      *)
(* request at a time.  An analysis stands for what the provider returned:  *)
(* it records the page whose snapshot was analysed and the provider and    *)
(* model that analysed it.  Timers are kept as the milliseconds they still *)
(* have to run; a cache entry is kept with the whole minutes that have     *)
(* passed since its `timestamp: Date.now()`.                               *)
(***************************************************************************)
REQUEST_DELAY == 500
maxRetries == 3
FiveMinutes == 5

\* ${message.name} in a template literal: the text 'undefined' when the message
\* has no such property
Interpolated(message, name) ==
    IF name \in DOMAIN message THEN message[name] ELSE "undefined"

\* the message activate() and reloadFullPage() send (content.js 779-782, 1053-1056);
\* the snapshot carries the url (content.js 2045)
AnalyzePageMessage(url) == [type |-> "analyzePage", domSnapshot |-> [url |-> url]]

\* the messages the two other queued handlers read (background.js 580, 941)
AnalyzeContainerMessage(url, label) ==
    [type |-> "analyzeContainer", domSnapshot |-> [url |-> url], containerLabel |-> label]

FindAdditionalContainersMessage(url) ==
    [type |-> "findAdditionalContainers", domSnapshot |-> [url |-> url],
     excludeSelectors |-> <<>>, containerScopes |-> <<>>]

\* the same request without the two lists the handler maps over
\* (background.js 960, 963, 1055, 1058)
BareFindAdditionalContainersMessage(url) ==
    [type |-> "findAdditionalContainers", domSnapshot |-> [url |-> url]]

\* the pages that ask for an analysis
Urls == {"https://a.example/", "https://b.example/"}

\* the provider and model pairs the popup can store (popup.js 9-31, 125-160)
Settings ==
    {[provider |-> "openai", model |-> "gpt-5.2"],
     [provider |-> "openai", model |-> "gpt-5-mini"],
     [provider |-> "gemini", model |-> "gemini-3-flash-preview"]}

\* no fetch is awaited
NoRequest ==
    [type |-> "", url |-> "", messageUrl |-> "", cacheKey |-> "", provider |-> "",
     model |-> "", retries |-> FALSE, attempt |-> 0, backoff |-> -1, waited |-> <<>>]

\* a link of the promise chain apiQueue: the message of its requestFn, where it
\* stands ("waiting" for the link before it, "running" its requestFn, "delaying"
\* in its setTimeout, "rejecting" in the setTimeout of the rejection callback),
\* the fetch its handler awaits and what is left of its delay
Link(message) == [message |-> message, status |-> "waiting", request |-> NoRequest, delay |-> 0]

\* apiQueue holds the links that are not settled, oldest first; rejection is
\* the error the last settled link was rejected with ("" when it was
\* fulfilled); lastEnd says whether the provider was 'gemini' when the last
\* requestFn returned, and how long ago that was (followed up to REQUEST_DELAY)
InitialBackground ==
    [extensionEnabled |-> FALSE, provider |-> "openai", model |-> "gpt-5.2",
     openaiApiKey |-> "", geminiApiKey |-> "", pageCache |-> <<>>, apiQueue |-> <<>>,
     rejection |-> "",
     lastEnd |-> [gemini |-> FALSE, elapsed |-> REQUEST_DELAY]]

getApiKey(bg) == IF bg.provider = "gemini" THEN bg.geminiApiKey ELSE bg.openaiApiKey

\* `${url}|${provider}|${model}`
PageCacheKey(url, provider, model) == url \o "|" \o provider \o "|" \o model

\* `${url}|container|${containerLabel}|${provider}|${model}`
ContainerCacheKey(url, label, provider, model) ==
    url \o "|container|" \o label \o "|" \o provider \o "|" \o model

\* pageCache.set(key, {timestamp: Date.now(), data})
CacheSet(pageCache, key, data) ==
    [k \in DOMAIN pageCache \cup {key} |->
        IF k = key THEN [age |-> 0, data |-> data] ELSE pageCache[k]]

\* the call a handler awaits: fetchWithRetry() for Gemini and for
\* findAdditionalContainers, plain fetch() for the two other OpenAI calls
Fetching(bg, message, messageUrl, cacheKey) ==
    [type |-> message.type, url |-> message.domSnapshot.url, messageUrl |-> messageUrl,
     cacheKey |-> cacheKey, provider |-> bg.provider, model |-> bg.model,
     retries |-> (bg.provider = "gemini" \/ message.type = "findAdditionalContainers"),
     attempt |-> 0, backoff |-> -1, waited |-> <<>>]

\* a handler returns at once
Returned(hit, response) == [hit |-> hit, response |-> response, request |-> NoRequest]

\* handleAnalyzePage(message) up to its first await: the response it returns at
\* once, or the fetch it awaits
handleAnalyzePage(bg, message) ==
    LET url == Interpolated(message, "url")
        cacheKey == PageCacheKey(url, bg.provider, bg.model)
    IN  IF getApiKey(bg) = ""
        THEN Returned(FALSE, [error |-> "API key not configured"])
        ELSE IF cacheKey \in DOMAIN bg.pageCache
        THEN Returned(TRUE, bg.pageCache[cacheKey].data)
        ELSE [hit |-> FALSE, response |-> [pending |-> TRUE],
              request |-> Fetching(bg, message, url, cacheKey)]

\* handleAnalyzeContainer(message) up to its first await
handleAnalyzeContainer(bg, message) ==
    LET url == message.domSnapshot.url
        cacheKey == ContainerCacheKey(url, message.containerLabel, bg.provider, bg.model)
    IN  IF getApiKey(bg) = ""
        THEN Returned(FALSE, [error |-> "API key not configured"])
        ELSE IF cacheKey \in DOMAIN bg.pageCache
        THEN Returned(TRUE, bg.pageCache[cacheKey].data)
        ELSE [hit |-> FALSE, response |-> [pending |-> TRUE],
              request |-> Fetching(bg, message, url, cacheKey)]

\* handleFindAdditionalContainers(message) up to its first await: no cache
handleFindAdditionalContainers(bg, message) ==
    IF getApiKey(bg) = ""
    THEN Returned(FALSE, [error |-> "API key not configured"])
    ELSE [hit |-> FALSE, response |-> [pending |-> TRUE],
          request |-> Fetching(bg, message, message.domSnapshot.url, "")]

\* the handler the onMessage listener queues for a message
requestFn(bg, message) ==
    CASE message.type = "analyzePage" -> handleAnalyzePage(bg, message)
      [] message.type = "analyzeContainer" -> handleAnalyzeContainer(bg, message)
      [] OTHER -> handleFindAdditionalContainers(bg, message)

\* the handler throws before its try block: with an API key stored,
\* handleFindAdditionalContainersOpenAI/Gemini map over excludeSelectors and
\* containerScopes (background.js 960, 963, 1055, 1058)
HandlerThrows(bg, message) ==
    /\ message.type = "findAdditionalContainers"
    /\ getApiKey(bg) # ""
    /\ ~({"excludeSelectors", "containerScopes"} \subseteq DOMAIN message)

\* the delay queueRequest() awaits after a request's result
QueueDelay(bg) == IF bg.provider = "gemini" THEN REQUEST_DELAY ELSE 0

\* a queue without the chain: every link's callback runs as soon as it is queued
StartsAtOnce(bg, i) == TRUE

\* queueRequest(): has the link before link i settled, so that link i's
\* callback runs
PreviousSettled(bg, i) == i = 1

\* queueRequest(): link i after `await requestFn()` has a result: it awaits the
\* delay, or settles at once
requestDone(bg, i) ==
    LET ended == [bg EXCEPT !.lastEnd = [gemini |-> bg.provider = "gemini", elapsed |-> 0]]
    IN  IF QueueDelay(bg) > 0
        THEN [ended EXCEPT !.apiQueue[i].status = "delaying",
                           !.apiQueue[i].request = NoRequest,
                           !.apiQueue[i].delay = QueueDelay(bg)]
        ELSE [ended EXCEPT !.apiQueue = Without(@, i)]

\* queueRequest(): the link before link i has settled and one of the two
\* callbacks of previousQueue.then() runs.  After a fulfilment requestFn is
\* called, and a throw in it rejects link i at once; after a rejection the
\* link waits REQUEST_DELAY and rejects with the same error, and requestFn is
\* not called
requestStarted(bg, i) ==
    LET started == requestFn(bg, bg.apiQueue[i].message)
    IN  IF bg.rejection # ""
        THEN [bg EXCEPT !.apiQueue[i].status = "rejecting",
                        !.apiQueue[i].delay = REQUEST_DELAY]
        ELSE IF HandlerThrows(bg, bg.apiQueue[i].message)
        THEN [bg EXCEPT !.apiQueue = Without(@, i), !.rejection = "TypeError"]
        ELSE IF started.request # NoRequest
        THEN [bg EXCEPT !.apiQueue[i].status = "running",
                        !.apiQueue[i].request = started.request]
        ELSE requestDone(bg, i)

\* queueRequest(): the delay timer of link i fired, the link settles
delayElapsed(bg, i) == [bg EXCEPT !.apiQueue = Without(@, i)]

\* 2 to the power attempt
RECURSIVE Pow2(_)
Pow2(attempt) == IF attempt = 0 THEN 1 ELSE 2 * Pow2(attempt - 1)

\* Math.pow(2, attempt) * 1000
delayMs(attempt) == Pow2(attempt) * 1000

\* a retry loop that has no last attempt
RetriesWithoutEnd(request, status) ==
    request.retries /\ status = 429

\* does fetchWithRetry() wait and fetch again after this status
RetriesAfter(request, status) ==
    request.retries /\ status = 429 /\ request.attempt # maxRetries - 1

\* the key the result is cached under: the one passed in, or, in
\* handleAnalyzePageGemini, one built again from message.url and the settings of
\* that moment
KeyAtSet(bg, request) ==
    IF request.type = "analyzePage" /\ request.provider = "gemini"
    THEN PageCacheKey(request.messageUrl, bg.provider, bg.model)
    ELSE request.cacheKey

\* the handler of link i after its fetch has a response: fetchWithRetry() backs
\* off on 429; a result is cached; any other outcome is returned as {error} and
\* caches nothing
fetchSettled(bg, i, status) ==
    LET request == bg.apiQueue[i].request
        result == [url |-> request.url, provider |-> request.provider,
                   model |-> request.model]
    IN  IF RetriesAfter(request, status)
        THEN [bg EXCEPT !.apiQueue[i].request.backoff = delayMs(request.attempt),
                        !.apiQueue[i].request.waited = Append(@, delayMs(request.attempt))]
        ELSE IF status = 200 /\ request.type # "findAdditionalContainers"
        THEN requestDone([bg EXCEPT !.pageCache = CacheSet(@, KeyAtSet(bg, request), result)], i)
        ELSE requestDone(bg, i)

\* does the settled call end in the rate-limit error of fetchWithRetry()
RateLimitError(request, status) ==
    request.retries /\ status = 429 /\ request.attempt = maxRetries - 1

\* fetchWithRetry(): the backoff timer fired, the next attempt is fetched
retryFetch(bg, i) ==
    [bg EXCEPT !.apiQueue[i].request.attempt = @ + 1, !.apiQueue[i].request.backoff = -1]

\* the clearCache message handler
clearCache(bg, message) ==
    IF "key" \in DOMAIN message
    THEN [bg EXCEPT !.pageCache = [k \in DOMAIN @ \ {message.key} |-> @[k]]]
    ELSE [bg EXCEPT !.pageCache = <<>>]

\* d milliseconds pass: armed timers run down, fetches stay outstanding
timePassed(bg, d) ==
    [bg EXCEPT !.apiQueue = [i \in DOMAIN @ |->
                                [@[i] EXCEPT !.delay = Max(0, @ - d),
                                             !.request.backoff =
                                                 IF @ > 0 THEN Max(0, @ - d) ELSE @]],
               !.lastEnd.elapsed = Min(REQUEST_DELAY, @ + d)]

\* m minutes pass
minutesPassed(bg, m) ==
    [timePassed(bg, m * 60000) EXCEPT
        !.pageCache = [k \in DOMAIN @ |-> [@[k] EXCEPT !.age = Min(MaxAge, @ + m)]]]

(***************************************************************************)
(* The popup (popup.js) and chrome.storage.local.  The storage is the      *)
(* function from the keys that were set to their values.                   *)
(***************************************************************************)
\* openaiApiKeyInput, geminiApiKeyInput and providerSelect hold the values of
\* the three form fields; saveTimeout names the function whose debounce timer is
\* armed ("": none)
InitialPopup ==
    [currentOpenAIKey |-> "", currentGeminiKey |-> "", currentProvider |-> "openai",
     extensionEnabled |-> FALSE, storage |-> <<>>,
     openaiApiKeyInput |-> "", geminiApiKeyInput |-> "", providerSelect |-> "openai",
     saveTimeout |-> ""]

\* chrome.storage.local.set(items)
StorageSet(storage, items) ==
    [k \in DOMAIN storage \cup DOMAIN items |->
        IF k \in DOMAIN items THEN items[k] ELSE storage[k]]

\* result.key || fallback, result.key ?? fallback
StorageGet(storage, key, fallback) == IF key \in DOMAIN storage THEN storage[key] ELSE fallback

\* init() of the popup: the fields are read from the storage
popupInit(p) ==
    [p EXCEPT !.currentOpenAIKey = StorageGet(p.storage, "openaiApiKey", ""),
              !.currentGeminiKey = StorageGet(p.storage, "geminiApiKey", ""),
              !.currentProvider = StorageGet(p.storage, "provider", "openai"),
              !.extensionEnabled = StorageGet(p.storage, "extensionEnabled", FALSE),
              !.openaiApiKeyInput = StorageGet(p.storage, "openaiApiKey", ""),
              !.geminiApiKeyInput = StorageGet(p.storage, "geminiApiKey", ""),
              !.providerSelect = StorageGet(p.storage, "provider", "openai")]

getCurrentApiKey(p) ==
    IF p.currentProvider = "gemini" THEN p.currentGeminiKey ELSE p.currentOpenAIKey

\* toggleExtension(enabled) of the popup
popupToggleExtension(p, enabled) ==
    [p EXCEPT !.extensionEnabled = enabled,
              !.storage = StorageSet(@, [extensionEnabled |-> enabled])]

\* saveOpenAIKey() when the debounce timer fires
saveOpenAIKey(p, newValue) ==
    IF newValue # p.currentOpenAIKey
    THEN [p EXCEPT !.currentOpenAIKey = newValue,
                   !.storage = StorageSet(@, [openaiApiKey |-> newValue])]
    ELSE p

\* saveGeminiKey() when the debounce timer fires
saveGeminiKey(p, newValue) ==
    IF newValue # p.currentGeminiKey
    THEN [p EXCEPT !.currentGeminiKey = newValue,
                   !.storage = StorageSet(@, [geminiApiKey |-> newValue])]
    ELSE p

\* PROVIDER_CONFIGS[provider].defaultModel
defaultModel(provider) == IF provider = "gemini" THEN "gemini-3-flash-preview" ELSE "gpt-5.2"

\* saveProvider() when the debounce timer fires
saveProvider(p, newProvider) ==
    IF newProvider # p.currentProvider
    THEN [p EXCEPT !.currentProvider = newProvider,
                   !.storage = StorageSet(@, [provider |-> newProvider,
                                              model |-> defaultModel(newProvider)])]
    ELSE p

\* the user edits a form field: the listener clears the one saveTimeout and
\* arms it for the save function of that field
fieldEdited(p, field, value) ==
    CASE field = "openaiApiKeyInput" ->
            [p EXCEPT !.openaiApiKeyInput = value, !.saveTimeout = "saveOpenAIKey"]
      [] field = "geminiApiKeyInput" ->
            [p EXCEPT !.geminiApiKeyInput = value, !.saveTimeout = "saveGeminiKey"]
      [] OTHER ->
            [p EXCEPT !.providerSelect = value, !.saveTimeout = "saveProvider"]

\* the armed debounce timer fires: the callback reads its own field
saveTimeoutFired(p) ==
    LET idle == [p EXCEPT !.saveTimeout = ""]
    IN  CASE p.saveTimeout = "saveOpenAIKey" -> saveOpenAIKey(idle, p.openaiApiKeyInput)
          [] p.saveTimeout = "saveGeminiKey" -> saveGeminiKey(idle, p.geminiApiKeyInput)
          [] OTHER -> saveProvider(idle, p.providerSelect)

\* the message notifyContentScript() sends to the active tab
notifyContentScript(p) ==
    [type |-> "settingsUpdated", apiKey |-> getCurrentApiKey(p),
     provider |-> p.currentProvider, extensionEnabled |-> p.extensionEnabled]

\* toggleExtension() of the service worker, on the toggle-annotations command
toggleExtension(bg) == [bg EXCEPT !.extensionEnabled = ~@]

\* the message toggleExtension() sends to every http(s) tab
ToggleBrowse(bg) == [type |-> "toggleBrowse", enabled |-> bg.extensionEnabled]

\* the chrome.storage.onChanged listener of the service worker, for the keys
\* the popup sets
storageChanged(bg, storage) ==
    [bg EXCEPT !.extensionEnabled = StorageGet(storage, "extensionEnabled", @),
               !.openaiApiKey = StorageGet(storage, "openaiApiKey", @),
               !.provider = StorageGet(storage, "provider", @),
               !.model = StorageGet(storage, "model", @)]

\* what loadState() of the content script reads from the storage
StoredState(storage) ==
    [apiKey |-> StorageGet(storage, "apiKey", ""),
     browseEnabled |-> StorageGet(storage, "browseEnabled", FALSE)]

(***************************************************************************)
(* Overlap resolution of the annotations (content.js 3373-3502).  Lengths  *)
(* are kept in 1024ths of a pixel, so that the halves the force formula    *)
(* produces stay whole numbers for ten applications; a box is the          *)
(* rectangle of its element, whose style.left and style.top are the        *)
(* rectangle's left and top.  The boxes of the model stand on one row.     *)
(***************************************************************************)
maxIterations == 10
padding == 5
repulsionStrength == 15
clampPadding == 8
ViewportWidth == 160
ViewportHeight == 100

Px(n) == n * 1024

Abs(x) == IF x < 0 THEN -x ELSE x

Box(left, top, width, height) == [left |-> left, top |-> top, width |-> width, height |-> height]

\* the fields getAnnotationBoundingBox() derives from the rectangle
BoxRight(box) == box.left + box.width
BoxBottom(box) == box.top + box.height
CenterX(box) == box.left + box.width \div 2
CenterY(box) == box.top + box.height \div 2

\* boxesOverlap(box1, box2, padding): both boxes are widened by the padding
boxesOverlap(box1, box2, pad) ==
    ~ \/ BoxRight(box1) + pad < box2.left - pad
      \/ box1.left - pad > BoxRight(box2) + pad
      \/ BoxBottom(box1) + pad < box2.top - pad
      \/ box1.top - pad > BoxBottom(box2) + pad

\* applyPositionDelta(element, deltaX, deltaY), and the rectangle read back
applyPositionDelta(box, deltaX, deltaY) ==
    LET newLeft == box.left + deltaX
        newTop == box.top + deltaY
        clampedLeft == Max(Px(clampPadding),
                           Min(newLeft, Px(ViewportWidth) - box.width - Px(clampPadding)))
        clampedTop == Max(Px(clampPadding),
                          Min(newTop, Px(ViewportHeight) - box.height - Px(clampPadding)))
    IN  [box EXCEPT !.left = clampedLeft, !.top = clampedTop]

\* dx / distance for two boxes of one row: the distance is |dx|, or 1 where
\* `|| 1` replaces a distance of 0
Direction(d) == IF d > 0 THEN 1 ELSE IF d < 0 THEN -1 ELSE 0

\* the body of the inner loop for the overlapping pair i, j
PushApart(boxes, i, j) ==
    LET box1 == boxes[i]
        box2 == boxes[j]
        dx == CenterX(box1) - CenterX(box2)
        dy == CenterY(box1) - CenterY(box2)
        dirX == Direction(dx)
        dirY == Direction(dy)
        overlapX == (box1.width + box2.width) \div 2 + Px(padding) - Abs(dx)
        overlapY == (box1.height + box2.height) \div 2 + Px(padding) - Abs(dy)
        force == (Min(overlapX, overlapY) * repulsionStrength) \div 10
    IN  [boxes EXCEPT ![i] = applyPositionDelta(box1, dirX * force, dirY * force),
                      ![j] = applyPositionDelta(box2, -dirX * force, -dirY * force)]

\* one pass of the two inner loops, from the pair i, j on
RECURSIVE PassFrom(_, _, _, _)
PassFrom(boxes, i, j, hasOverlap) ==
    IF i > Len(boxes) THEN [boxes |-> boxes, hasOverlap |-> hasOverlap]
    ELSE IF j > Len(boxes) THEN PassFrom(boxes, i + 1, i + 2, hasOverlap)
    ELSE IF boxesOverlap(boxes[i], boxes[j], Px(padding))
    THEN PassFrom(PushApart(boxes, i, j), i, j + 1, TRUE)
    ELSE PassFrom(boxes, i, j + 1, hasOverlap)

\* the outer loop, from the given iteration on: the boxes it ends with and the
\* passes it made
RECURSIVE IterationsFrom(_, _)
IterationsFrom(boxes, iteration) ==
    IF iteration >= maxIterations THEN [boxes |-> boxes, passes |-> iteration]
    ELSE LET pass == PassFrom(boxes, 1, 2, FALSE)
         IN  IF ~pass.hasOverlap THEN [boxes |-> pass.boxes, passes |-> iteration + 1]
             ELSE IterationsFrom(pass.boxes, iteration + 1)

\* resolveAnnotationOverlaps(annotationBoxes)
resolveAnnotationOverlaps(annotationBoxes) ==
    IF Len(annotationBoxes) < 2 THEN [boxes |-> annotationBoxes, passes |-> 0]
    ELSE IterationsFrom(annotationBoxes, 0)

\* no boxes were collected
NoLayout == [stage |-> "none", boxes |-> <<>>, placed |-> <<>>, passes |-> 0]

(***************************************************************************)
(* The overlay element and the hint nodes appended to it.                  *)
(***************************************************************************)
NoOverlay == [exists |-> FALSE, hints |-> <<>>, palette |-> -1, error |-> ""]
NewOverlay == [exists |-> TRUE, hints |-> <<>>, palette |-> -1, error |-> ""]

HintNode(class, key, selector) ==
    [class |-> class, key |-> key, selector |-> selector, hidden |-> FALSE]

\* overlay.appendChild(hint); identical nodes are kept MaxDupHints times at most
AppendHint(w, hint) ==
    IF Cardinality({i \in DOMAIN w.state.overlay.hints :
                        w.state.overlay.hints[i] = hint}) >= MaxDupHints
    THEN w
    ELSE [w EXCEPT !.state.overlay.hints = Append(@, hint)]

EmptyMap == [k \in {} |-> Undefined]
MapSet(map, k, v) == [x \in DOMAIN map \cup {k} |-> IF x = k THEN v ELSE map[x]]

InitialState ==
    [active |-> FALSE, containers |-> <<>>, standalone |-> <<>>, annotations |-> <<>>,
     currentContainer |-> NoContainer, currentElements |-> <<>>,
     keyToElement |-> EmptyMap, overlay |-> NoOverlay, apiKey |-> "", enabled |-> FALSE,
     mode |-> MODES.NORMAL, navigationLevel |-> "containers",
     macroRecording |-> FALSE, currentMacro |-> <<>>,
     followModeInput |-> <<>>, followModeSelectedIndex |-> 0, followModeMatches |-> <<>>,
     breadcrumbTrail |-> <<>>]

NoEntry == [containers |-> <<>>, keyToElement |-> EmptyMap,
            navigationLevel |-> "containers", currentContainer |-> NoContainer]

(***************************************************************************)
(* Rendering (content.js 1098-1139, 1742-1898, 2520-2639).                 *)
(***************************************************************************)
\* clearHints()
clearHints(w) ==
    IF ~w.state.overlay.exists THEN w
    ELSE [w EXCEPT !.state.overlay.hints = <<>>]

\* the filter of renderContainers: the selector resolves and the node has
\* at least 2 descendants
IsValidContainer(container) ==
    /\ queryElementSafe(container.selector) # NoNode
    /\ DescendantCount(queryElementSafe(container.selector)[1]) >= 2

\* showContainerHint(container, key): border and badge of one container
showContainerHint(w, container, key) ==
    IF queryElementSafe(container.selector) = NoNode THEN w
    ELSE AppendHint(w, HintNode("browse-container-badge", key, container.selector))

RECURSIVE renderContainersFrom(_, _, _)
renderContainersFrom(w, validContainers, i) ==
    IF i > Len(validContainers) \/ i > Len(NUMBERS) THEN w
    ELSE renderContainersFrom(
            showContainerHint(
                [w EXCEPT !.state.keyToElement =
                    MapSet(@, NUMBERS[i], [type |-> "container", data |-> validContainers[i]])],
                validContainers[i], NUMBERS[i]),
            validContainers, i + 1)

\* renderContainers()
renderContainers(w) ==
    IF ~w.state.overlay.exists THEN w
    ELSE LET w1 == [clearHints(w) EXCEPT !.state.keyToElement = EmptyMap]
             validContainers == SelectSeq(w.state.containers, IsValidContainer)
         IN  renderContainersFrom(w1, validContainers, 1)

\* the comparator of validElements.sort: reading order with a 10 px row tolerance
PositionCompare(a, b) ==
    LET rowDiff == a.rect.top - b.rect.top
    IN  IF rowDiff > 10 \/ rowDiff < -10 THEN rowDiff ELSE a.rect.left - b.rect.left

\* validElements.sort(...): Array.prototype.sort is stable, so with a
\* comparator that orders the items consistently an item's place is the
\* number of items that go before it
SortByPosition(items) ==
    LET place == [i \in 1..Len(items) |->
                    Cardinality({j \in 1..Len(items) :
                        \/ PositionCompare(items[j], items[i]) < 0
                        \/ PositionCompare(items[j], items[i]) = 0 /\ j < i}) + 1]
    IN  [r \in 1..Len(items) |-> items[CHOOSE i \in 1..Len(items) : place[i] = r]]

\* the first loop of renderVimiumHintsUniversal: the elements that get a hint
ValidElements(elements) ==
    LET n == Min(Len(elements), Len(ALL_KEYS))
        usageCount(i) == Cardinality({j \in 1..(i - 1) : elements[j].selector = elements[i].selector})
        allMatches(i) == DocQuerySelectorAll(elements[i].selector)
        el(i) == allMatches(i)[Min(usageCount(i), Len(allMatches(i)) - 1) + 1]
        keep(i) == /\ allMatches(i) # <<>>
                   /\ BoundingRect(el(i)).width # 0
                   /\ BoundingRect(el(i)).height # 0
        item(i) == [element |-> elements[i], rect |-> BoundingRect(el(i)),
                    key |-> ALL_KEYS[i], index |-> i, domElement |-> el(i)]
    IN  SelectSeq([i \in 1..n |-> IF keep(i) THEN item(i) ELSE Undefined],
                  LAMBDA x : x # Undefined)

\* the key under which renderVimiumHintsUniversal stores an item in the map
VimiumMapKey(key) == toLowerCase(key)

\* does document.querySelectorAll throw in the first loop of
\* renderVimiumHintsUniversal
ValidElementsThrows(elements) ==
    \E i \in 1..Min(Len(elements), Len(ALL_KEYS)) : InvalidSelector(elements[i].selector)

\* renderVimiumHintsUniversal(elements); elements is state.currentElements.
\* Each item, in sorted order, stores its DOM element in its descriptor, is
\* entered in the key map (a later item replaces an earlier one under the
\* same map key) and gets its hint appended to the overlay.
renderVimiumHintsUniversal(w) ==
    IF ~w.state.overlay.exists THEN w
    ELSE IF ValidElementsThrows(w.state.currentElements)
    THEN [clearHints(w) EXCEPT !.state.keyToElement = EmptyMap]   \* SyntaxError
    ELSE LET aliased == w.state.annotations = w.state.currentElements
             items == SortByPosition(ValidElements(w.state.currentElements))
             element(i) == [items[i].element EXCEPT !._element = items[i].domElement]
             lastWith(k) == CHOOSE i \in 1..Len(items) :
                                /\ VimiumMapKey(items[i].key) = k
                                /\ \A j \in 1..Len(items) :
                                      VimiumMapKey(items[j].key) = k => j <= i
             elements ==
                 [n \in 1..Len(w.state.currentElements) |->
                     IF \E i \in 1..Len(items) : items[i].index = n
                     THEN element(CHOOSE i \in 1..Len(items) : items[i].index = n)
                     ELSE w.state.currentElements[n]]
             w1 == [w EXCEPT
                     !.state.currentElements = elements,
                     !.state.annotations = IF aliased THEN elements ELSE @,
                     !.state.keyToElement =
                         [k \in {VimiumMapKey(items[i].key) : i \in 1..Len(items)} |->
                             [type |-> "element", data |-> element(lastWith(k))]],
                     !.state.overlay.hints =
                         [i \in 1..Len(items) |->
                             HintNode("browse-vimium-hint", items[i].key, items[i].element.selector)]]
         IN  w1

\* renderContainerElements(container)
renderContainerElements(w, container) ==
    IF ~w.state.overlay.exists THEN w
    ELSE LET w1 == [clearHints(w) EXCEPT !.state.keyToElement = EmptyMap]
         IN  IF container = NoContainer THEN w1   \* TypeError: container is null
             ELSE renderVimiumHintsUniversal(w1)

\* the element showHintForElement / activateElement act on: the selector,
\* else the stored reference while it is still in the document
ResolveAnnotation(annotation) ==
    IF queryElementSafe(annotation.selector) # NoNode
    THEN queryElementSafe(annotation.selector)
    ELSE IF "_element" \in DOMAIN annotation /\ DocumentContains(annotation._element)
         THEN annotation._element
         ELSE NoNode

\* showHintForElement(annotation, key); thrown is TRUE when appendChild hit a
\* null overlay
showHintForElement(w, annotation, key) ==
    IF ResolveAnnotation(annotation) = NoNode THEN [world |-> w, thrown |-> FALSE]
    ELSE IF ~w.state.overlay.exists THEN [world |-> w, thrown |-> TRUE]
    ELSE [world |-> AppendHint(w, HintNode("browse-hint", key, annotation.selector)),
          thrown |-> FALSE]

\* hideHint(key): the first node with data-key = key is faded out
hideHint(w, key) ==
    LET hits == {i \in DOMAIN w.state.overlay.hints : w.state.overlay.hints[i].key = key}
    IN  IF hits = {} THEN w
        ELSE [w EXCEPT !.state.overlay.hints[CHOOSE i \in hits : \A j \in hits : i <= j].hidden = TRUE]

\* showError(message)
showError(w, message) ==
    IF ~w.state.overlay.exists THEN w
    ELSE [w EXCEPT !.state.overlay.error = message]

(***************************************************************************)
(* Activation and deactivation (content.js 751-819, 1004-1028, 2737-2755). *)
(***************************************************************************)
\* createOverlay()
createOverlay(w) ==
    IF w.state.overlay.exists THEN w
    ELSE [w EXCEPT !.state.overlay = NewOverlay]

\* one outstanding chrome.runtime.sendMessage call and the function awaiting it
Request(fn, type) == [fn |-> fn, type |-> type]

sendMessage(w, fn, type) == [w EXCEPT !.pending = Append(@, Request(fn, type))]

\* activate(), up to its await
activate(w) ==
    IF w.state.active THEN w
    ELSE LET w1 == [w EXCEPT !.state.active = TRUE,
                             !.state.navigationLevel = "containers",
                             !.state.currentContainer = NoContainer,
                             !.entry = NoEntry]
         IN  sendMessage(createOverlay(w1), "activate", "analyzePage")

\* activate(), from the await on (content.js 784-818)
activateResumed(w, response) ==
    IF response.kind = "throw" THEN showError(w, "exception")
    ELSE IF response.kind = "error" THEN showError(w, "error")
    ELSE LET w1 == [w EXCEPT !.state.containers = response.containers,
                             !.state.standalone = response.standalone,
                             !.state.annotations = response.containers \o response.standalone]
         IN  IF response.containers = <<>> /\ response.standalone = <<>>
             THEN showError(w1, "No navigable elements found")
             ELSE renderContainers(w1)

\* deactivate()
deactivate(w) ==
    LET timers == IF w.state.overlay.exists THEN w.overlayTimers + 1 ELSE w.overlayTimers
        s1 == [w.state EXCEPT !.active = FALSE,
                              !.mode = MODES.NORMAL,
                              !.navigationLevel = "containers",
                              !.containers = <<>>,
                              !.standalone = <<>>,
                              !.annotations = <<>>,
                              !.currentContainer = NoContainer,
                              !.currentElements = <<>>,
                              !.keyToElement = EmptyMap]
    IN  [w EXCEPT !.state = s1, !.overlayTimers = timers, !.entry = NoEntry]

\* the timer callback of deactivate(): remove whatever state.overlay is now
overlayRemoval(w) ==
    IF w.state.overlay.exists
    THEN [w EXCEPT !.state.overlay = NoOverlay, !.overlayTimers = @ - 1]
    ELSE [w EXCEPT !.overlayTimers = @ - 1]

(***************************************************************************)
(* Containers and elements (content.js 1531-1678, 1946-2040, 2647-2734).   *)
(***************************************************************************)
\* getElementType(element)
getElementType(node) ==
    CASE TagName(node) = "a"      -> "link"
      [] TagName(node) = "button" -> "button"
      [] TagName(node) = "input"  -> "input"
      [] OTHER                    -> "button"

\* the interactive elements under containerEl, as the interactiveSelectors
\* list finds them: per selector in list order, document order within one
\* selector, every element once
findInteractiveElementsInContainer(container) ==
    LET containerEl == queryElementSafe(container.selector)
        nodes == [j \in 1..ElementCount(containerEl[1]) |-> <<containerEl[1], j>>]
        found(tag) == SelectSeq(nodes, LAMBDA n : TagName(n) = tag)
        descriptor(n) == [selector |-> n, label |-> ElementText(n),
                          type |-> getElementType(n), _element |-> n]
        order == found("a") \o found("button") \o found("input")
    IN  IF containerEl = NoNode THEN <<>>
        ELSE [i \in 1..Len(order) |-> descriptor(order[i])]

\* enterContainer(container)
enterContainer(w, container) ==
    IF container = Undefined THEN w   \* TypeError: container.label of undefined
    ELSE LET crumb == [type |-> "container", label |-> container.label,
                       selector |-> container.selector]
             elements == findInteractiveElementsInContainer(container)
             w1 == [w EXCEPT !.entry.containers = w.state.containers,
                             !.entry.keyToElement = w.state.keyToElement,
                             !.state.breadcrumbTrail = Append(@, crumb),
                             !.state.currentContainer = container,
                             !.state.navigationLevel = "elements",
                             !.state.currentElements = elements,
                             !.state.annotations = elements]
         IN  renderContainerElements(w1, container)

\* a return to the containers that keeps the container and its elements
exitKeepingContainer(w) ==
    IF ~w.state.overlay.exists THEN w
    ELSE renderContainers(
            [w EXCEPT !.state.navigationLevel = "containers",
                      !.state.annotations = w.state.containers \o w.state.standalone,
                      !.entry.containers = <<>>,
                      !.entry.keyToElement = EmptyMap])

\* exitToContainers()
exitToContainers(w) ==
    IF ~w.state.overlay.exists THEN w   \* TypeError: state.overlay is null
    ELSE LET w1 == [w EXCEPT !.state.breadcrumbTrail =
                                 IF @ = <<>> THEN @ ELSE SubSeq(@, 1, Len(@) - 1),
                             !.state.currentContainer = NoContainer,
                             !.state.currentElements = <<>>,
                             !.state.navigationLevel = "containers",
                             !.state.annotations = w.state.containers \o w.state.standalone,
                             !.entry.containers = <<>>,
                             !.entry.keyToElement = EmptyMap]
         IN  renderContainers(w1)

\* activateElement(annotation, key)
activateElement(w, annotation, key) ==
    IF annotation = Undefined THEN w   \* TypeError: annotation.selector of undefined
    ELSE LET element == ResolveAnnotation(annotation)
             step == [type |-> "click", selector |-> annotation.selector]
             w1 == IF w.state.macroRecording
                   THEN [w EXCEPT !.state.currentMacro = Append(@, step)]
                   ELSE w
         IN  IF element = NoNode THEN w
             ELSE hideHint(w1, key)

\* reloadContainer()
reloadContainer(w) ==
    IF w.state.currentContainer = NoContainer THEN w
    ELSE renderContainerElements(
            [w EXCEPT !.state.currentElements =
                findInteractiveElementsInContainer(w.state.currentContainer)],
            w.state.currentContainer)

\* reloadFullPage(), up to its first await
reloadFullPage(w) == sendMessage(w, "reloadFullPage", "clearCache")

\* reloadFullPage(), between its two awaits
reloadFullPageCleared(w) == sendMessage(w, "reloadFullPage", "analyzePage")

\* reloadFullPage(), from the second await on (content.js 1059-1078)
reloadFullPageResumed(w, response) ==
    IF response.kind = "throw" THEN showError(w, "exception")
    ELSE IF response.kind = "error" THEN showError(w, "error")
    ELSE renderContainers(
            [w EXCEPT !.state.containers = response.containers,
                      !.state.standalone = response.standalone,
                      !.state.annotations = response.containers \o response.standalone])

\* forceReload()
forceReload(w) ==
    IF w.state.navigationLevel = "elements" /\ w.state.currentContainer # NoContainer
    THEN reloadContainer(w)
    ELSE reloadFullPage(w)

(***************************************************************************)
(* Follow mode (content.js 435-638, 735-748).                              *)
(***************************************************************************)
startsWith(text, query) ==
    Len(query) <= Len(text) /\ SubSeq(text, 1, Len(query)) = query

includes(text, query) ==
    \E i \in 0..(Len(text) - Len(query)) : SubSeq(text, i + 1, i + Len(query)) = query

\* the character-by-character loop of fuzzyMatch
RECURSIVE fuzzyScan(_, _, _, _, _, _)
fuzzyScan(text, query, textIndex, queryIndex, score, consecutiveMatches) ==
    IF textIndex > Len(text) \/ queryIndex > Len(query)
    THEN [queryIndex |-> queryIndex, score |-> score]
    ELSE IF text[textIndex] = query[queryIndex]
         THEN fuzzyScan(text, query, textIndex + 1, queryIndex + 1,
                        score + 10 + consecutiveMatches * 2, consecutiveMatches + 1)
         ELSE fuzzyScan(text, query, textIndex + 1, queryIndex, score - 1, 0)

\* fuzzyMatch(text, query)
fuzzyMatch(rawText, rawQuery) ==
    LET text == LowerText(rawText)
        query == LowerText(rawQuery)
        scan == fuzzyScan(text, query, 1, 1, 0, 0)
    IN  IF query = <<>> THEN [score |-> 0, match |-> FALSE]
        ELSE IF text = query THEN [score |-> 100, match |-> TRUE]
        ELSE IF startsWith(text, query) THEN [score |-> 80, match |-> TRUE]
        ELSE IF includes(text, query) THEN [score |-> 60, match |-> TRUE]
        ELSE IF scan.queryIndex = Len(query) + 1
             THEN [score |-> Max(20, scan.score), match |-> TRUE]
             ELSE [score |-> 0, match |-> FALSE]

\* scored.sort((a, b) => b.score - a.score): stable, highest score first
SortByScore(scored) ==
    LET place == [i \in 1..Len(scored) |->
                    Cardinality({j \in 1..Len(scored) :
                        \/ scored[j].score > scored[i].score
                        \/ scored[j].score = scored[i].score /\ j < i}) + 1]
    IN  [r \in 1..Len(scored) |-> scored[CHOOSE i \in 1..Len(scored) : place[i] = r]]

\* { ...annotation, type }
WithType(annotation, type) ==
    [f \in DOMAIN annotation \cup {"type"} |-> IF f = "type" THEN type ELSE annotation[f]]

\* the text findMatchesForFollow scores: the label, else the element's text
FollowText(element) ==
    IF element.label # <<>> THEN element.label
    ELSE IF ResolveAnnotation(element) # NoNode /\ ResolveAnnotation(element)[2] > 0
         THEN ElementText(ResolveAnnotation(element))
         ELSE <<>>

\* findMatchesForFollow(query)
findMatchesForFollow(s, query) ==
    LET allElements ==
            IF s.navigationLevel = "containers"
            THEN [i \in 1..Len(s.containers) |-> WithType(s.containers[i], "container")]
                 \o [i \in 1..Len(s.standalone) |-> WithType(s.standalone[i], "standalone")]
            ELSE [i \in 1..Len(s.currentElements) |-> WithType(s.currentElements[i], "element")]
        result(i) == fuzzyMatch(FollowText(allElements[i]), query)
        scored == SelectSeq([i \in 1..Len(allElements) |->
                                [element |-> allElements[i], score |-> result(i).score,
                                 match |-> result(i).match]],
                            LAMBDA r : r.match /\ r.score > 0)
        sorted == SortByScore(scored)
    IN  IF query = <<>> THEN <<>>
        ELSE [i \in 1..Min(9, Len(sorted)) |-> sorted[i].element]

RECURSIVE renderFollowModeFrom(_, _)
renderFollowModeFrom(w, i) ==
    IF i > Len(w.state.annotations) \/ i > 9 THEN w
    ELSE IF queryElementSafe(w.state.annotations[i].selector) = NoNode
         THEN renderFollowModeFrom(w, i + 1)
         ELSE renderFollowModeFrom(
                showHintForElement(
                    [w EXCEPT !.state.keyToElement = MapSet(@, NUMBERS[i], w.state.annotations[i])],
                    w.state.annotations[i], NUMBERS[i]).world,
                i + 1)

\* renderFollowMode()
renderFollowMode(w) ==
    IF ~w.state.overlay.exists THEN w
    ELSE renderFollowModeFrom(w, 1)

\* the forEach of updateFollowModeResults; it stops where a call throws
RECURSIVE showMatchesFrom(_, _)
showMatchesFrom(w, i) ==
    IF i > Len(w.state.followModeMatches) THEN w
    ELSE LET annotation == w.state.followModeMatches[i]
             shown == showHintForElement(
                        [w EXCEPT !.state.keyToElement = MapSet(@, NUMBERS[i], annotation)],
                        annotation, NUMBERS[i])
         IN  IF shown.thrown THEN shown.world
             ELSE IF i - 1 = w.state.followModeSelectedIndex /\ ~w.state.overlay.exists
                  THEN shown.world   \* TypeError: state.overlay is null
                  ELSE showMatchesFrom(shown.world, i + 1)

\* updateFollowModeResults()
updateFollowModeResults(w) ==
    IF w.state.followModeInput = <<>> THEN renderFollowMode(w)
    ELSE LET w1 == [w EXCEPT !.state.followModeMatches =
                                findMatchesForFollow(w.state, w.state.followModeInput)]
         IN  IF w1.state.followModeMatches # <<>>
             THEN showMatchesFrom([w1 EXCEPT !.state.keyToElement = EmptyMap], 1)
             ELSE [w1 EXCEPT !.state.keyToElement = EmptyMap]

\* enterFollowMode()
enterFollowMode(w) ==
    renderFollowMode([w EXCEPT !.entry.navigationLevel = w.state.navigationLevel,
                               !.entry.currentContainer = w.state.currentContainer,
                               !.state.mode = MODES.FOLLOW,
                               !.state.followModeInput = <<>>,
                               !.state.followModeSelectedIndex = 0,
                               !.state.followModeMatches = <<>>])

\* exitFollowMode()
exitFollowMode(w) ==
    LET w1 == clearHints([w EXCEPT !.state.mode = MODES.NORMAL,
                                   !.state.followModeInput = <<>>,
                                   !.state.followModeSelectedIndex = 0,
                                   !.state.followModeMatches = <<>>])
    IN  IF w1.state.navigationLevel = "containers" THEN renderContainers(w1)
        ELSE renderContainerElements(w1, w1.state.currentContainer)

\* handleFollowModeKeydown(e)
handleFollowModeKeydown(w, e) ==
    LET n == Len(w.state.followModeMatches)
        index == w.state.followModeSelectedIndex
    IN  CASE e.key \in {"ArrowDown", "ArrowUp"} ->
                IF n = 0 THEN w
                ELSE updateFollowModeResults(
                        [w EXCEPT !.state.followModeSelectedIndex =
                            IF e.key = "ArrowDown" THEN (index + 1) % n ELSE (index - 1 + n) % n])
          [] e.key = "Enter" ->
                IF n = 0 \/ index >= n THEN w   \* nothing to do / TypeError on undefined
                ELSE exitFollowMode(
                        activateElement(w, w.state.followModeMatches[index + 1], "follow"))
          [] e.key = "Backspace" ->
                updateFollowModeResults(
                    [w EXCEPT !.state.followModeInput =
                                  IF @ = <<>> THEN @ ELSE SubSeq(@, 1, Len(@) - 1),
                              !.state.followModeSelectedIndex = 0])
          [] e.key \in Range(ALL_KEYS) /\ ~e.ctrlKey /\ ~e.metaKey /\ ~e.altKey ->
                updateFollowModeResults(
                    [w EXCEPT !.state.followModeInput = Append(@, toLowerCase(e.key)),
                              !.state.followModeSelectedIndex = 0])
          [] OTHER -> w

(***************************************************************************)
(* Command palette and macro recording (content.js 3029-3178).             *)
(***************************************************************************)
PaletteItems == <<"reload", "follow", "record", "save", "sessions", "help">>

\* openCommandPalette(); overlay.palette is -1 without a palette, else the
\* number of the selected item (0: none selected)
openCommandPalette(w) ==
    LET w1 == [w EXCEPT !.state.mode = MODES.COMMAND]
    IN  IF ~w1.state.overlay.exists THEN w1   \* TypeError: state.overlay is null
        ELSE [w1 EXCEPT !.state.overlay.palette = 0]

\* closeCommandPalette()
closeCommandPalette(w) ==
    [w EXCEPT !.state.overlay.palette = -1, !.state.mode = MODES.NORMAL]

\* stopMacroRecording(save)
stopMacroRecording(w, save) ==
    IF ~w.state.macroRecording THEN w
    ELSE [w EXCEPT !.state.macroRecording = FALSE, !.state.currentMacro = <<>>]

\* toggleMacroRecording()
toggleMacroRecording(w) ==
    LET w1 == [w EXCEPT !.state.macroRecording = ~@]
    IN  IF w1.state.macroRecording THEN [w1 EXCEPT !.state.currentMacro = <<>>]
        ELSE stopMacroRecording(w1, TRUE)

\* does stopMacroRecording(save) reach prompt('Name this macro:'), after
\* which the named macro is written to chrome.storage (content.js 3163-3173)
stopMacroRecordingPrompts(w, save) ==
    w.state.macroRecording /\ save /\ w.state.currentMacro # <<>>

\* does toggleMacroRecording() reach the prompt: only through
\* stopMacroRecording(true), called after the flag was flipped
toggleMacroRecordingPrompts(w) ==
    LET w1 == [w EXCEPT !.state.macroRecording = ~@]
    IN  ~w1.state.macroRecording /\ stopMacroRecordingPrompts(w1, TRUE)

\* promptSaveSession(): touches state.sessions only, which is not modelled
promptSaveSession(w) == w

\* executeCommand(action)
executeCommand(w, action) ==
    LET w1 == closeCommandPalette(w)
    IN  CASE action = "reload" -> forceReload(w1)
          [] action = "follow" -> enterFollowMode(w1)
          [] action = "record" -> toggleMacroRecording(w1)
          [] action = "save"   -> promptSaveSession(w1)
          [] OTHER             -> w1   \* showSessions(), showHelp(): panels only

\* handlePaletteKeydown(e), the listener on the palette's input
handlePaletteKeydown(w, e) ==
    LET selected == w.state.overlay.palette
        n == Len(PaletteItems)
    IN  CASE e.key = "Escape" -> closeCommandPalette(w)
          [] e.key = "Enter" ->
                IF selected > 0 THEN executeCommand(w, PaletteItems[selected]) ELSE w
          [] e.key = "ArrowDown" ->
                [w EXCEPT !.state.overlay.palette = (((selected - 1) + 1) % n) + 1]
          [] e.key = "ArrowUp" ->
                [w EXCEPT !.state.overlay.palette = (((selected - 1) - 1 + n) % n) + 1]
          [] OTHER -> w

(***************************************************************************)
(* Keyboard (content.js 311-414).                                          *)
(***************************************************************************)
\* handleEscape()
handleEscape(w) ==
    IF w.state.mode = MODES.FOLLOW THEN exitFollowMode(w)
    ELSE IF w.state.mode = MODES.COMMAND THEN closeCommandPalette(w)
    ELSE IF w.state.macroRecording THEN stopMacroRecording(w, FALSE)
    ELSE IF w.state.navigationLevel = "elements" THEN exitToContainers(w)
    ELSE deactivate(w)

\* item.data of a key-map entry
ItemData(item) == IF "data" \in DOMAIN item THEN item.data ELSE Undefined

\* the branch of handleKeyDown for a key of the key map (content.js 368-387)
navigateByKey(w, e) ==
    LET key == toLowerCase(e.key)
        item == w.state.keyToElement[key]
    IN  IF key \notin {toLowerCase(k) : k \in Range(ALL_KEYS)} THEN w
        ELSE IF key \notin DOMAIN w.state.keyToElement THEN w
        ELSE IF item.type = "container" THEN enterContainer(w, ItemData(item))
        ELSE IF item.type \in {"standalone", "element"} THEN activateElement(w, ItemData(item), key)
        ELSE w

\* handleKeyDown(e)
handleKeyDown(w, e) ==
    IF ~w.state.active THEN w
    ELSE IF e.key = "Escape" THEN handleEscape(w)
    ELSE IF w.state.mode = MODES.FOLLOW THEN handleFollowModeKeydown(w, e)
    ELSE IF w.state.mode = MODES.COMMAND THEN w   \* ReferenceError: handleCommandPaletteKeydown
    ELSE IF (e.ctrlKey \/ e.metaKey) /\ e.key = "p" THEN openCommandPalette(w)
    ELSE IF e.key = "f" /\ ~e.ctrlKey /\ ~e.metaKey /\ ~e.altKey THEN enterFollowMode(w)
    ELSE IF e.shiftKey /\ e.key = "R" /\ ~e.ctrlKey /\ ~e.metaKey THEN forceReload(w)
    ELSE IF e.ctrlKey /\ e.shiftKey /\ e.key = "R" THEN toggleMacroRecording(w)
    ELSE IF e.ctrlKey /\ e.key = "s" THEN promptSaveSession(w)
    ELSE IF ~e.ctrlKey /\ ~e.metaKey /\ ~e.altKey THEN navigateByKey(w, e)
    ELSE w

\* a keydown event: the palette's input listener runs first when the event
\* is targeted at the input, then the document listener
dispatchKeyDown(w, e) ==
    IF e.onInput THEN handleKeyDown(handlePaletteKeydown(w, e), e)
    ELSE handleKeyDown(w, e)

(***************************************************************************)
(* Messages and page changes (content.js 206-224, 241-253, 285-308,        *)
(* 3609-3623).                                                             *)
(***************************************************************************)
\* handleMessage(message) for toggleBrowse and settingsUpdate
handleMessage(w, message) ==
    IF message.type = "toggleBrowse"
    THEN IF message.enabled THEN activate(w) ELSE deactivate(w)
    ELSE IF message.type = "settingsUpdate"
    THEN LET w1 == [w EXCEPT !.state.apiKey = message.apiKey,
                             !.state.enabled = message.enabled]
         IN  IF w1.state.enabled /\ w1.state.apiKey # "" THEN activate(w1) ELSE deactivate(w1)
    ELSE w

\* the chrome.storage callback of loadState()
loadState(w, result) ==
    LET w1 == [w EXCEPT !.state.apiKey = result.apiKey,
                        !.state.enabled = result.browseEnabled]
    IN  IF w1.state.enabled /\ w1.state.apiKey # "" THEN activate(w1) ELSE w1

\* must the engine be shut down when the page URL has changed
UrlChangeDeactivates(s) == s.active /\ s.enabled

\* the MutationObserver callback of observeChanges() after a URL change
observeChanges(w) ==
    IF UrlChangeDeactivates(w.state)
    THEN [deactivate(w) EXCEPT !.reactivateTimers = @ + 1]
    ELSE w

\* the 500 ms timer of observeChanges()
reactivate(w) ==
    LET w1 == [w EXCEPT !.reactivateTimers = @ - 1]
    IN  IF w1.state.enabled /\ w1.state.apiKey # "" THEN activate(w1) ELSE w1

\* the debounced callback of handleResize()
handleResize(w) ==
    IF ~w.state.active THEN w
    ELSE IF w.state.navigationLevel = "containers" THEN renderContainers(w)
    ELSE IF w.state.navigationLevel = "elements" /\ w.state.currentContainer # NoContainer
         THEN renderContainerElements(w, w.state.currentContainer)
         ELSE w

(***************************************************************************)
(* The events the script reacts to.                                        *)
(***************************************************************************)
KeyEvent(key, ctrl, shift, onInput) ==
    [key |-> key, ctrlKey |-> ctrl, metaKey |-> FALSE, altKey |-> FALSE,
     shiftKey |-> shift, onInput |-> onInput]

PlainKeys == {"1", "2", "Escape"}

KeyEvents ==
    {KeyEvent(k, FALSE, FALSE, FALSE) : k \in PlainKeys}
    \cup {KeyEvent("R", FALSE, TRUE, FALSE)}    \* Shift+R

Messages ==
    {[type |-> "toggleBrowse", enabled |-> b, apiKey |-> ""] : b \in BOOLEAN}
    \cup {[type |-> "settingsUpdate", enabled |-> b, apiKey |-> "key"] : b \in BOOLEAN}

StoredSettings ==
    {[apiKey |-> "", browseEnabled |-> FALSE], [apiKey |-> "key", browseEnabled |-> FALSE],
     [apiKey |-> "key", browseEnabled |-> TRUE]}

World ==
    [state |-> state, pending |-> pending, overlayTimers |-> overlayTimers,
     reactivateTimers |-> reactivateTimers, entry |-> entry]

WithinBounds(w) ==
    /\ Len(w.pending) <= MaxPending
    /\ w.overlayTimers <= MaxTimers
    /\ w.reactivateTimers <= MaxReactivate
    /\ Len(w.state.breadcrumbTrail) <= MaxTrail
    /\ Len(w.state.currentMacro) <= MaxMacro

\* a handler ran to its end, or to its await, and left the world w
CommitWorld(w) ==
    /\ WithinBounds(w)
    /\ Len(w.state.followModeInput) <= Max(MaxQuery, Len(state.followModeInput))
    /\ state' = w.state
    /\ pending' = w.pending
    /\ overlayTimers' = w.overlayTimers
    /\ reactivateTimers' = w.reactivateTimers
    /\ entry' = w.entry

\* the same, in a script whose surroundings stay as they are
Commit(w) ==
    /\ CommitWorld(w)
    /\ UNCHANGED <<storageLoaded, probe, background, popup, layout>>

\* no element is being surveyed
NoProbe ==
    [stage |-> "none", doc |-> <<>>, element |-> NullElement, surveyor |-> "",
     selector |-> NullSelector, resolved |-> NullElement]

\* the requests of one type that are outstanding
Outstanding(type) == {i \in DOMAIN pending : pending[i].type = type}

\* the analyzePage request answered next: the background serves them in order
OldestAnalyze == CHOOSE i \in Outstanding("analyzePage") : \A j \in Outstanding("analyzePage") : i <= j

Init ==
    /\ state = InitialState
    /\ pending = <<>>
    /\ overlayTimers = 0
    /\ reactivateTimers = 0
    /\ storageLoaded = FALSE
    /\ entry = NoEntry
    /\ probe = NoProbe
    /\ background = InitialBackground
    /\ popup = InitialPopup
    /\ layout = NoLayout

\* the chrome.storage callback of loadState(), the first task after init()
LoadState ==
    /\ ~storageLoaded
    /\ \E result \in StoredSettings :
          \E w \in {loadState(World, result)} :
              /\ state' = w.state
              /\ pending' = w.pending
    /\ storageLoaded' = TRUE
    /\ UNCHANGED <<overlayTimers, reactivateTimers, entry, probe, background, popup, layout>>

Message(messages) ==
    /\ storageLoaded
    /\ \E message \in messages : \E w \in {handleMessage(World, message)} : Commit(w)

KeyDown(events) ==
    /\ storageLoaded
    /\ \E e \in events :
          /\ e.onInput => state.overlay.palette >= 0
          /\ \E w \in {dispatchKeyDown(World, e)} : Commit(w)

AnalyzeResponse(responses) ==
    /\ Outstanding("analyzePage") # {}
    /\ \E response \in responses :
          LET request == pending[OldestAnalyze]
              w0 == [World EXCEPT !.pending = Without(@, OldestAnalyze)]
          IN  \E w \in {IF request.fn = "activate" THEN activateResumed(w0, response)
                         ELSE reloadFullPageResumed(w0, response)} : Commit(w)

CacheCleared ==
    \E i \in Outstanding("clearCache") :
        \E w \in {reloadFullPageCleared([World EXCEPT !.pending = Without(@, i)])} : Commit(w)

OverlayRemoval ==
    /\ overlayTimers > 0
    /\ \E w \in {overlayRemoval(World)} : Commit(w)

UrlChange ==
    /\ storageLoaded
    /\ \E w \in {observeChanges(World)} : Commit(w)

Reactivate ==
    /\ reactivateTimers > 0
    /\ \E w \in {reactivate(World)} : Commit(w)

Resize ==
    /\ storageLoaded
    /\ \E w \in {handleResize(World)} : Commit(w)

Next ==
    \/ LoadState
    \/ Message(Messages)
    \/ KeyDown(KeyEvents)
    \/ AnalyzeResponse(Responses)
    \/ CacheCleared
    \/ OverlayRemoval
    \/ UrlChange
    \/ Reactivate
    \/ Resize

Spec == Init /\ [][Next]_vars

(***************************************************************************)
(* The same script on an answer that names the largest container: the      *)
(* user walks into it and presses element keys of both cases.              *)
(***************************************************************************)
RenderKeyEvents ==
    {KeyEvent(k, FALSE, FALSE, FALSE) : k \in {"1", "a", "Escape"}}
    \cup {KeyEvent("A", FALSE, TRUE, FALSE)}    \* Shift+A

ToggleMessages == {m \in Messages : m.type = "toggleBrowse"}

NextRender ==
    \/ LoadState
    \/ Message(ToggleMessages)
    \/ KeyDown(RenderKeyEvents)
    \/ AnalyzeResponse({BigPage, MidPage, ClassyPage})
    \/ OverlayRemoval
    \/ Resize

SpecRender == Init /\ [][NextRender]_vars

(***************************************************************************)
(* The same script with the keys of Follow mode: the user enters Follow    *)
(* mode at either level, types, deletes, moves the selection and leaves.   *)
(***************************************************************************)
FollowKeyEvents ==
    {KeyEvent(k, FALSE, FALSE, FALSE) :
        k \in {"1", "f", "a", "b", "Backspace", "ArrowDown", "ArrowUp", "Enter", "Escape"}}

NextFollow ==
    \/ LoadState
    \/ Message(ToggleMessages)
    \/ KeyDown(FollowKeyEvents)
    \/ AnalyzeResponse({FollowPage})
    \/ OverlayRemoval

SpecFollow == Init /\ [][NextFollow]_vars

(***************************************************************************)
(* The same script with the command palette: Ctrl+P opens it, and keys are *)
(* pressed with the focus on the palette's input or elsewhere on the page. *)
(***************************************************************************)
CtrlP == KeyEvent("p", TRUE, FALSE, FALSE)

CommandKeyEvents ==
    {CtrlP}
    \cup {KeyEvent(k, FALSE, FALSE, onInput) :
            k \in {"1", "Escape"}, onInput \in BOOLEAN}
    \cup {KeyEvent(k, FALSE, FALSE, TRUE) : k \in {"ArrowDown", "Enter"}}

NextCommand ==
    \/ LoadState
    \/ Message(ToggleMessages)
    \/ KeyDown(CommandKeyEvents)
    \/ AnalyzeResponse({OtherPage})
    \/ CacheCleared
    \/ OverlayRemoval

SpecCommand == Init /\ [][NextCommand]_vars

(***************************************************************************)
(* Follow-mode search over drawn inputs: the first container carries a     *)
(* drawn label and a drawn query has been typed; the user then goes on     *)
(* with the keys of Follow mode.                                           *)
(***************************************************************************)
Texts   == UNION {[1..n -> {"A", "b"}] : n \in 1..MaxText}
Queries == UNION {[1..n -> {"a", "b"}] : n \in 1..MaxMatchQuery}

\* an answer whose first container carries the label text
MatchPage(text) ==
    [kind |-> "ok",
     containers |-> <<Container(1, text), Container(2, ContainerLabel(2))>>,
     standalone |-> <<>>]

\* the world after activation on MatchPage(text), 'f' and the keys of query
Searching(text, query) ==
    LET w0 == [state |-> [InitialState EXCEPT !.apiKey = "key", !.enabled = TRUE],
               pending |-> <<>>, overlayTimers |-> 0, reactivateTimers |-> 0,
               entry |-> NoEntry]
        w1 == activateResumed([activate(w0) EXCEPT !.pending = <<>>], MatchPage(text))
    IN  updateFollowModeResults([enterFollowMode(w1) EXCEPT !.state.followModeInput = query])

InitMatch ==
    \E text \in Texts, query \in Queries :
        /\ state = Searching(text, query).state
        /\ entry = Searching(text, query).entry
        /\ pending = <<>>
        /\ overlayTimers = 0
        /\ reactivateTimers = 0
        /\ storageLoaded = TRUE
        /\ probe = NoProbe
        /\ background = InitialBackground
        /\ popup = InitialPopup
        /\ layout = NoLayout

MatchKeyEvents ==
    {KeyEvent(k, FALSE, FALSE, FALSE) :
        k \in {"1", "f", "a", "Backspace", "ArrowDown", "Enter", "Escape"}}

NextMatch == KeyDown(MatchKeyEvents)

SpecMatch == InitMatch /\ [][NextMatch]_vars

(***************************************************************************)
(* The surveyors on drawn documents: body holds a div, a section with two  *)
(* drawn children and another section; one element is surveyed, by the     *)
(* page survey (generateSelector) or, for a child of the first section, by *)
(* the container survey (generateSimpleSelector), and its selector is      *)
(* resolved at once.                                                       *)
(***************************************************************************)
ElementKinds ==
    [tag : {"a", "button"}, id : {"", "x", "1x"},
     classes : {<<>>, <<"item">>, <<"md:flex">>}]

Document(first, second) ==
    <<[tag |-> "div", id |-> "", classes |-> <<>>, children |-> <<>>],
      [tag |-> "section", id |-> "", classes |-> <<>>, children |-> <<first, second>>],
      [tag |-> "section", id |-> "", classes |-> <<>>, children |-> <<>>]>>

Documents == {Document(first, second) : first, second \in ElementKinds}

\* the container of the container survey
SurveyedContainer == <<2>>

InitSelector ==
    /\ state = InitialState
    /\ pending = <<>>
    /\ overlayTimers = 0
    /\ reactivateTimers = 0
    /\ storageLoaded = FALSE
    /\ entry = NoEntry
    /\ background = InitialBackground
    /\ popup = InitialPopup
    /\ layout = NoLayout
    /\ \E doc \in Documents, surveyor \in {"page", "container"} :
          \E element \in IF surveyor = "page" THEN Range(DocumentOrder(doc))
                          ELSE Range(ChildrenOf(doc, SurveyedContainer)) :
              probe = [NoProbe EXCEPT !.stage = "drawn", !.doc = doc,
                                      !.element = element, !.surveyor = surveyor]

\* the page survey emits the element
GenerateSelector ==
    /\ probe.stage = "drawn" /\ probe.surveyor = "page"
    /\ probe' = [probe EXCEPT !.stage = "generated",
                              !.selector = generateSelector(probe.doc, probe.element)]
    /\ UNCHANGED <<state, pending, overlayTimers, reactivateTimers, storageLoaded, entry,
                   background, popup, layout>>

\* the container survey emits the element
GenerateSimpleSelector ==
    /\ probe.stage = "drawn" /\ probe.surveyor = "container"
    /\ probe' = [probe EXCEPT !.stage = "generated",
                              !.selector = generateSimpleSelector(probe.doc, probe.element,
                                                                  SurveyedContainer)]
    /\ UNCHANGED <<state, pending, overlayTimers, reactivateTimers, storageLoaded, entry,
                   background, popup, layout>>

\* the selector is resolved on the unchanged document
Resolve ==
    /\ probe.stage = "generated"
    /\ probe' = [probe EXCEPT !.stage = "resolved",
                              !.resolved = queryElementSafeIn(probe.selector, probe.doc)]
    /\ UNCHANGED <<state, pending, overlayTimers, reactivateTimers, storageLoaded, entry,
                   background, popup, layout>>

NextSelector ==
    \/ GenerateSelector
    \/ GenerateSimpleSelector
    \/ Resolve

SpecSelector == InitSelector /\ [][NextSelector]_vars

(***************************************************************************)
(* The service worker serving the pages of Urls.                           *)
(***************************************************************************)
ContentUnchanged ==
    UNCHANGED <<state, pending, overlayTimers, reactivateTimers, storageLoaded, entry, probe,
                popup, layout>>

\* a page sends a request; queueRequest() chains a link behind the earlier ones
RequestReceived(messages) ==
    /\ Len(background.apiQueue) < MaxQueue
    /\ \E message \in messages :
          background' = [background EXCEPT !.apiQueue = Append(@, Link(message))]
    /\ ContentUnchanged

\* a link whose turn it is starts its request
RequestRuns ==
    /\ \E i \in DOMAIN background.apiQueue :
          /\ background.apiQueue[i].status = "waiting"
          /\ PreviousSettled(background, i)
          /\ background' = requestStarted(background, i)
    /\ ContentUnchanged

\* the provider answers a fetch with an HTTP status
FetchSettled(statuses) ==
    /\ \E i \in DOMAIN background.apiQueue, status \in statuses :
          /\ background.apiQueue[i].status = "running"
          /\ background.apiQueue[i].request.backoff = -1
          /\ background' = fetchSettled(background, i, status)
    /\ ContentUnchanged

\* a backoff timer of fetchWithRetry() fires
RetryFires ==
    /\ \E i \in DOMAIN background.apiQueue :
          /\ background.apiQueue[i].status = "running"
          /\ background.apiQueue[i].request.backoff = 0
          /\ background' = retryFetch(background, i)
    /\ ContentUnchanged

\* a delay timer of queueRequest() fires
DelayElapsed ==
    /\ \E i \in DOMAIN background.apiQueue :
          /\ background.apiQueue[i].status \in {"delaying", "rejecting"}
          /\ background.apiQueue[i].delay = 0
          /\ background' = delayElapsed(background, i)
    /\ ContentUnchanged

\* chrome.storage.onChanged: the popup stored a provider and model, or an API key
StorageChanged(settings, keys) ==
    /\ \/ \E s \in settings :
             background' = [background EXCEPT !.provider = s.provider, !.model = s.model]
       \/ \E key \in keys :
             \/ background' = [background EXCEPT !.openaiApiKey = key]
             \/ background' = [background EXCEPT !.geminiApiKey = key]
    /\ background' # background
    /\ ContentUnchanged

\* a page sends clearCache (content.js 1045)
ClearCacheReceived ==
    /\ background.pageCache # <<>>
    /\ background' = clearCache(background, [type |-> "clearCache"])
    /\ ContentUnchanged

\* time passes
TimePasses(steps) ==
    /\ \E d \in steps : background' = timePassed(background, d)
    /\ background' # background
    /\ ContentUnchanged

MinutesPass(steps) ==
    /\ \E m \in steps : background' = minutesPassed(background, m)
    /\ background' # background
    /\ ContentUnchanged

PageRequests == {AnalyzePageMessage(url) : url \in Urls}

NextCache ==
    \/ RequestReceived(PageRequests)
    \/ RequestRuns
    \/ FetchSettled({200, 500})
    \/ DelayElapsed
    \/ StorageChanged(Settings, {"", "sk"})
    \/ ClearCacheReceived
    \/ MinutesPass({3})

SpecCache == Init /\ [][NextCache]_vars

(***************************************************************************)
(* The request queue under load: the three queued message types of one     *)
(* page, providers that answer 429, both API keys stored, and time         *)
(* observed in steps of half a second.                                     *)
(***************************************************************************)
InitQueue ==
    /\ state = InitialState
    /\ pending = <<>>
    /\ overlayTimers = 0
    /\ reactivateTimers = 0
    /\ storageLoaded = FALSE
    /\ entry = NoEntry
    /\ probe = NoProbe
    /\ background = [InitialBackground EXCEPT !.openaiApiKey = "sk", !.geminiApiKey = "sk"]
    /\ popup = InitialPopup
    /\ layout = NoLayout

DefaultSettings == {s \in Settings : s.model \in {"gpt-5.2", "gemini-3-flash-preview"}}

QueuedRequests ==
    {AnalyzePageMessage("https://a.example/"),
     AnalyzeContainerMessage("https://a.example/", "Navigation"),
     FindAdditionalContainersMessage("https://a.example/")}

NextQueue ==
    \/ RequestReceived(QueuedRequests)
    \/ RequestRuns
    \/ FetchSettled({200, 429})
    \/ RetryFires
    \/ DelayElapsed
    \/ StorageChanged(DefaultSettings, {})
    \/ ClearCacheReceived
    \/ TimePasses({500})

SpecQueue == InitQueue /\ [][NextQueue]_vars

(***************************************************************************)
(* One tab, the popup and the toggle command: the settings reach the       *)
(* content script through the storage when the page loads, through the     *)
(* popup's message and through the service worker's toggleBrowse message.  *)
(***************************************************************************)
\* the content script handles a message, if it is loaded in the tab
Delivered(message) ==
    IF storageLoaded
    THEN \E w \in {handleMessage(World, message)} : CommitWorld(w)
    ELSE UNCHANGED <<state, pending, overlayTimers, reactivateTimers, entry>>

\* the page loads: loadState() reads the storage
PageLoads ==
    /\ ~storageLoaded
    /\ \E w \in {loadState(World, StoredState(popup.storage))} : CommitWorld(w)
    /\ storageLoaded' = TRUE
    /\ UNCHANGED <<probe, background, popup, layout>>

\* the popup is opened
PopupOpens ==
    /\ popup' = popupInit(popup)
    /\ popup' # popup
    /\ UNCHANGED <<state, pending, overlayTimers, reactivateTimers, storageLoaded, entry,
                   probe, background, layout>>

\* the user changes a setting in the popup: it is stored and the active tab is
\* notified
PopupChanges ==
    /\ \E p \in {popupToggleExtension(popup, ~popup.extensionEnabled)}
                \cup {saveOpenAIKey(popup, key) : key \in {"", "sk"}}
                \cup {saveProvider(popup, provider) : provider \in {"openai", "gemini"}} :
          /\ p # popup
          /\ popup' = p
          /\ Delivered(notifyContentScript(p))
    /\ UNCHANGED <<storageLoaded, probe, background, layout>>

\* chrome.storage.onChanged reaches the service worker
StorageEvent ==
    /\ background' = storageChanged(background, popup.storage)
    /\ background' # background
    /\ UNCHANGED <<state, pending, overlayTimers, reactivateTimers, storageLoaded, entry,
                   probe, popup, layout>>

\* the toggle-annotations command
ToggleCommand ==
    /\ background' = toggleExtension(background)
    /\ popup' = [popup EXCEPT !.storage =
                    StorageSet(@, [extensionEnabled |-> background'.extensionEnabled])]
    /\ Delivered(ToggleBrowse(background'))
    /\ UNCHANGED <<storageLoaded, probe, layout>>

ToggleKeyEvents == {KeyEvent(k, FALSE, FALSE, FALSE) : k \in {"1", "Escape"}}

NextToggle ==
    \/ PageLoads
    \/ PopupOpens
    \/ PopupChanges
    \/ StorageEvent
    \/ ToggleCommand
    \/ KeyDown(ToggleKeyEvents)
    \/ AnalyzeResponse({OtherPage})
    \/ OverlayRemoval

SpecToggle == Init /\ [][NextToggle]_vars

TypeOK ==
    /\ state.mode \in {MODES.NORMAL, MODES.FOLLOW, MODES.COMMAND}
    /\ state.navigationLevel \in {"containers", "elements"}
    /\ WithinBounds(World)
    /\ Len(state.followModeInput) <= MaxMatchQuery

(***************************************************************************)
(* Properties.  A handler is a function of the world it runs in, so what a *)
(* handler does "whenever it runs" is stated over every reachable world.   *)
(***************************************************************************)
Plain(key) == KeyEvent(key, FALSE, FALSE, FALSE)

Normal == state.active /\ state.mode = MODES.NORMAL

\* the selector a key-map entry points at
TargetOf(item) == IF "data" \in DOMAIN item THEN item.data.selector ELSE item.selector

\* the hints of the overlay and the key map of s agree: no two hints carry the
\* same key, every hint has its entry, and there are as many entries as hints
HintsMatchKeyMap(s) ==
    LET hints == s.overlay.hints
    IN  /\ \A i, j \in DOMAIN hints : i # j => hints[i].key # hints[j].key
        /\ \A i \in DOMAIN hints :
              /\ hints[i].key \in DOMAIN s.keyToElement
              /\ TargetOf(s.keyToElement[hints[i].key]) = hints[i].selector
        /\ Cardinality(DOMAIN s.keyToElement) = Len(hints)

\* C1: after every render pass (container level, element level, Follow-mode
\* results) no two rendered hints share a key, every rendered hint has its own
\* entry in the key map and the map has as many entries as there are hints.
C1_KeyMapInjective ==
    state.active /\ state.overlay.exists =>
        /\ state.navigationLevel = "containers" =>
              HintsMatchKeyMap(renderContainers(World).state)
        /\ state.navigationLevel = "elements" /\ state.currentContainer # NoContainer =>
              HintsMatchKeyMap(renderContainerElements(World, state.currentContainer).state)
        /\ state.mode = MODES.FOLLOW /\ state.followModeInput # <<>> =>
              HintsMatchKeyMap(updateFollowModeResults(World).state)

\* the oldest analyzePage request is the one activate() awaits, and the
\* engine has been deactivated since
LateActivation ==
    /\ ~state.active
    /\ Outstanding("analyzePage") # {}
    /\ pending[OldestAnalyze].fn = "activate"

\* C2: a response that arrives for activate() after the engine was
\* deactivated is discarded: containers, standalone, annotations, the key map
\* and the hints stay as deactivate() left them.
C2_LateResponseDiscarded ==
    LateActivation =>
        \A response \in Responses :
            LET w == activateResumed([World EXCEPT !.pending = Without(@, OldestAnalyze)],
                                     response)
            IN  /\ w.state.containers = state.containers
                /\ w.state.standalone = state.standalone
                /\ w.state.annotations = state.annotations
                /\ w.state.keyToElement = state.keyToElement
                /\ w.state.overlay.hints = state.overlay.hints

\* C3: at most one analyzePage request is outstanding, and while one is, no
\* key event changes the level or the mode or starts another request.
C3_NoInterleaving ==
    /\ Cardinality(Outstanding("analyzePage")) <= 1
    /\ Outstanding("analyzePage") # {} =>
          \A e \in KeyEvents :
              LET w == dispatchKeyDown(World, e)
              IN  /\ w.state.navigationLevel = state.navigationLevel
                  /\ w.state.mode = state.mode
                  /\ w.pending = pending

\* the selectors of the page that resolve to a node with at least two
\* descendants
LiveContainers ==
    {<<c, 0>> : c \in (1..MaxContainers) \cup {BigContainer, MidContainer, ClassyContainer}}

\* the bindings C4 asks of renderContainers: digit i for the i-th container of
\* the list that is live, up to 9
DigitBindings(containers) ==
    LET valid == SelectSeq(containers, LAMBDA c : c.selector \in LiveContainers)
        n == Min(Len(valid), 9)
    IN  [k \in {NUMBERS[i] : i \in 1..n} |->
            [type |-> "container",
             data |-> valid[CHOOSE i \in 1..n : NUMBERS[i] = k]]]

\* the survey of one container: every interactive element inside it, once
SurveyOf(container, elements) ==
    /\ Len(elements) = ElementCount(container.selector[1])
    /\ {elements[i].selector : i \in DOMAIN elements}
          = {<<container.selector[1], j>> : j \in 1..ElementCount(container.selector[1])}

\* what the function awaiting the oldest analyzePage request does with a
\* response
Resumed(response) ==
    LET w == [World EXCEPT !.pending = Without(@, OldestAnalyze)]
    IN  IF pending[OldestAnalyze].fn = "activate" THEN activateResumed(w, response)
        ELSE reloadFullPageResumed(w, response)

\* C4: when the labeling result of an active engine contains n valid
\* containers, exactly the digits 1..min(n,9) are bound afterwards, digit i to
\* the i-th valid container; pressing a bound digit in Normal mode at the
\* containers level leads to the elements level of that container, pushes one
\* breadcrumb for it and surveys the container.
C4_DigitsEnterContainers ==
    /\ state.active /\ Outstanding("analyzePage") # {} =>
          \A response \in Responses :
              response.kind = "ok" /\ response.containers # <<>> =>
                  Resumed(response).state.keyToElement = DigitBindings(response.containers)
    /\ Normal /\ state.navigationLevel = "containers" =>
          \A k \in DOMAIN state.keyToElement \cap Range(NUMBERS) :
              state.keyToElement[k].type = "container" =>
                  LET container == state.keyToElement[k].data
                      w == handleKeyDown(World, Plain(k))
                  IN  /\ w.state.navigationLevel = "elements"
                      /\ w.state.currentContainer = container
                      /\ w.state.breadcrumbTrail =
                            Append(state.breadcrumbTrail,
                                   [type |-> "container", label |-> container.label,
                                    selector |-> container.selector])
                      /\ SurveyOf(container, w.state.currentElements)

\* C5: in Normal mode Escape at the elements level leads to the containers
\* level with the breadcrumb popped, the current container cleared and the
\* container hints rendered again; Escape at the containers level leads to
\* Inactive.
C5_EscapeGoesUp ==
    Normal =>
        LET w == handleKeyDown(World, Plain("Escape"))
        IN  /\ state.navigationLevel = "elements" =>
                  /\ w.state.active
                  /\ w.state.navigationLevel = "containers"
                  /\ w.state.currentContainer = NoContainer
                  /\ Len(w.state.breadcrumbTrail) = Len(state.breadcrumbTrail) - 1
                  /\ w.state.keyToElement = DigitBindings(state.containers)
                  /\ HintsMatchKeyMap(w.state)
            /\ state.navigationLevel = "containers" => ~w.state.active

\* C6: after deactivate(), in whatever state it was called, the navigation
\* state has its initial value: inactive, containers level, Normal mode, no
\* current container, no containers, standalone or current elements, empty key
\* map, empty breadcrumb trail, empty Follow-mode query and match list.
C6_DeactivateResets ==
    LET s == deactivate(World).state
    IN  /\ ~s.active
        /\ s.navigationLevel = "containers"
        /\ s.mode = MODES.NORMAL
        /\ s.currentContainer = NoContainer
        /\ s.containers = <<>> /\ s.standalone = <<>> /\ s.currentElements = <<>>
        /\ s.keyToElement = EmptyMap
        /\ s.breadcrumbTrail = <<>>
        /\ s.followModeInput = <<>> /\ s.followModeMatches = <<>>

\* C7: a URL change while the engine is active forces it to Inactive, and the
\* re-activation timer then re-activates it exactly when the feature is still
\* enabled, however the engine was activated.
C7_UrlChangeRestarts ==
    state.active =>
        LET w == observeChanges(World)
        IN  /\ ~w.state.active
            /\ w.reactivateTimers = reactivateTimers + 1
            /\ reactivate(w).state.active = (state.enabled /\ state.apiKey # "")

\* C8: after an element was activated with key k at the elements level, k is
\* no longer bound to that element.
C8_RetiredKeyUnbound ==
    Normal /\ state.navigationLevel = "elements" =>
        \A k \in DOMAIN state.keyToElement :
            state.keyToElement[k].type = "element"
            /\ ResolveAnnotation(state.keyToElement[k].data) # NoNode =>
                LET w == handleKeyDown(World, Plain(k))
                IN  \/ k \notin DOMAIN w.state.keyToElement
                    \/ TargetOf(w.state.keyToElement[k]) # TargetOf(state.keyToElement[k])

\* C9: pressing a key bound to an element at the elements level in Normal
\* mode leaves the level, the current container, the current elements, the
\* breadcrumb trail, the mode and every other key's binding unchanged.
C9_ElementKeyFrame ==
    Normal /\ state.navigationLevel = "elements" =>
        \A k \in DOMAIN state.keyToElement :
            state.keyToElement[k].type = "element" =>
                LET w == handleKeyDown(World, Plain(k))
                IN  /\ w.state.navigationLevel = state.navigationLevel
                    /\ w.state.currentContainer = state.currentContainer
                    /\ w.state.currentElements = state.currentElements
                    /\ w.state.breadcrumbTrail = state.breadcrumbTrail
                    /\ w.state.mode = state.mode
                    /\ \A other \in DOMAIN state.keyToElement \ {k} :
                          /\ other \in DOMAIN w.state.keyToElement
                          /\ w.state.keyToElement[other] = state.keyToElement[other]

\* C10: Escape from inside a container returns to the containers level with
\* the container list and the digit bindings that were there when the
\* container was entered, whatever happened in between.
C10_EnterThenEscape ==
    Normal /\ state.navigationLevel = "elements" =>
        LET w == handleKeyDown(World, Plain("Escape"))
        IN  w.state.navigationLevel = "containers" =>
                /\ w.state.containers = entry.containers
                /\ w.state.keyToElement = entry.keyToElement

\* the oldest analyzePage request is the one activate() awaits, and the
\* engine is still active
ActivationPending ==
    /\ state.active
    /\ Outstanding("analyzePage") # {}
    /\ pending[OldestAnalyze].fn = "activate"

\* the answers with which an activation fails
FailedResponses == {NothingFound, ErrorResponse, Rejected}

\* C11: when the labeling call of activate() answers with an error, throws or
\* finds nothing, the activation adds no hint and binds no key, leaves the
\* containers and standalone lists both untouched (error, exception) or both
\* empty (nothing found), leaves level, mode and current container alone and
\* shows an error message, 'No navigable elements found' for the empty result.
C11_FailedActivation ==
    ActivationPending =>
        \A response \in FailedResponses :
            LET w == Resumed(response)
            IN  /\ w.state.overlay.hints = state.overlay.hints
                /\ w.state.keyToElement = state.keyToElement
                /\ IF response = NothingFound
                   THEN /\ w.state.containers = <<>>
                        /\ w.state.standalone = <<>>
                        /\ w.state.overlay.error = "No navigable elements found"
                   ELSE /\ w.state.containers = state.containers
                        /\ w.state.standalone = state.standalone
                        /\ w.state.overlay.error # ""
                /\ w.state.navigationLevel = state.navigationLevel
                /\ w.state.mode = state.mode
                /\ w.state.currentContainer = state.currentContainer

\* C12: after a failed activation the engine is inactive again, and the next
\* activate() sends a new analyzePage request.
C12_FailedActivationRearms ==
    ActivationPending =>
        \A response \in FailedResponses :
            LET w == Resumed(response)
            IN  /\ ~w.state.active
                /\ Len(activate(w).pending) = Len(w.pending) + 1

\* the key map binds exactly the keys of the given elements, the i-th key of
\* ALL_KEYS to the i-th element
BindsElements(map, elements) ==
    /\ DOMAIN map = {ALL_KEYS[i] : i \in 1..Len(elements)}
    /\ \A i \in 1..Len(elements) :
          /\ map[ALL_KEYS[i]].type = "element"
          /\ TargetOf(map[ALL_KEYS[i]]) = elements[i].selector

\* C13: Escape in Follow mode, whatever was typed, deleted or selected since
\* 'f' was pressed, returns to Normal mode at the level and in the container
\* where Follow mode was entered, with the key map of that level: the digits
\* of the valid containers at the containers level, the keys of the
\* container's elements at the elements level.
C13_FollowEscapeRestores ==
    state.active /\ state.mode = MODES.FOLLOW =>
        LET w == handleKeyDown(World, Plain("Escape"))
        IN  /\ w.state.mode = MODES.NORMAL
            /\ w.state.navigationLevel = entry.navigationLevel
            /\ w.state.currentContainer = entry.currentContainer
            /\ w.state.navigationLevel = "containers" =>
                  w.state.keyToElement = DigitBindings(w.state.containers)
            /\ w.state.navigationLevel = "elements" =>
                  BindsElements(w.state.keyToElement,
                                findInteractiveElementsInContainer(w.state.currentContainer))

\* the navigation state C14 wants the palette to leave alone
SameNavigation(s, t) ==
    /\ s.navigationLevel = t.navigationLevel
    /\ s.currentContainer = t.currentContainer
    /\ s.breadcrumbTrail = t.breadcrumbTrail
    /\ s.keyToElement = t.keyToElement

\* where a key can be pressed: on the palette's input only while there is one
Focus(w) == IF w.state.overlay.palette >= 0 THEN BOOLEAN ELSE {FALSE}

\* C14: opening the command palette with Ctrl+P and closing it with Escape
\* leaves level, current container, breadcrumb trail and key map as they
\* were; and while the palette is open no key other than Escape changes them,
\* enters Follow mode or starts a reload.
C14_PaletteIsOrthogonal ==
    /\ Normal =>
          LET opened == handleKeyDown(World, CtrlP)
          IN  /\ SameNavigation(opened.state, state)
              /\ \A onInput \in Focus(opened) :
                    LET closed == dispatchKeyDown(opened, KeyEvent("Escape", FALSE, FALSE, onInput))
                    IN  /\ closed.state.mode = MODES.NORMAL
                        /\ closed.state.active
                        /\ SameNavigation(closed.state, state)
    /\ state.active /\ state.mode = MODES.COMMAND =>
          \A e \in CommandKeyEvents :
              e.key # "Escape" /\ e.onInput \in Focus(World) =>
                  LET w == dispatchKeyDown(World, e)
                  IN  /\ SameNavigation(w.state, state)
                      /\ w.state.mode # MODES.FOLLOW
                      /\ w.pending = pending

\* the place of a key in ALL_KEYS
KeyIndex(key) == CHOOSE i \in 1..Len(ALL_KEYS) : ALL_KEYS[i] = key

\* node a comes before node b in reading order: higher up, or as high and
\* further left
ReadsBefore(a, b) ==
    \/ BoundingRect(a).top < BoundingRect(b).top
    \/ BoundingRect(a).top = BoundingRect(b).top /\ BoundingRect(a).left < BoundingRect(b).left

\* C15: the hints rendered for the elements of a container carry their keys
\* in reading order: of two hinted elements the one that reads first has the
\* earlier key, and a container with 15 hinted elements gets the keys 'a'..'o'.
C15_KeysInReadingOrder ==
    Normal /\ state.navigationLevel = "elements" /\ state.currentContainer # NoContainer =>
        LET hints == renderContainerElements(World, state.currentContainer).state.overlay.hints
        IN  /\ \A i, j \in DOMAIN hints :
                  ReadsBefore(hints[i].selector, hints[j].selector) =>
                      KeyIndex(hints[i].key) < KeyIndex(hints[j].key)
            /\ Len(hints) = MidElements =>
                  {hints[i].key : i \in DOMAIN hints} = {LETTERS[i] : i \in 1..MidElements}

\* query, in order, is part of text: some characters of text may be skipped
RECURSIVE IsSubsequence(_, _)
IsSubsequence(query, text) ==
    IF query = <<>> THEN TRUE
    ELSE IF text = <<>> THEN FALSE
    ELSE IF Head(query) = Head(text) THEN IsSubsequence(Tail(query), Tail(text))
    ELSE IsSubsequence(query, Tail(text))

\* how text matches query, case-insensitively
IsExact(text, query) == LowerText(text) = LowerText(query)
IsInnerSubstring(text, query) ==
    /\ ~startsWith(LowerText(text), LowerText(query))
    /\ includes(LowerText(text), LowerText(query))
IsScattered(text, query) ==
    /\ ~includes(LowerText(text), LowerText(query))
    /\ IsSubsequence(LowerText(query), LowerText(text))

\* C16: for a non-empty query the score of a text that equals the query is
\* above the score of every text that contains it only as a non-prefix
\* substring, and that score is above the score of every text that matches
\* it only as a scattered subsequence.
C16_FuzzyTiers ==
    state.mode = MODES.FOLLOW /\ state.followModeInput # <<>> /\ state.containers # <<>> =>
        LET query == state.followModeInput
            text == state.containers[1].label
        IN  \A other \in Texts :
                /\ IsExact(text, query) /\ IsInnerSubstring(other, query) =>
                      fuzzyMatch(text, query).score > fuzzyMatch(other, query).score
                /\ IsInnerSubstring(text, query) /\ IsScattered(other, query) =>
                      fuzzyMatch(text, query).score > fuzzyMatch(other, query).score

\* the candidates Follow mode searches at the level of s, in discovery order
Candidates(s) ==
    IF s.navigationLevel = "containers"
    THEN [i \in 1..Len(s.containers) |-> WithType(s.containers[i], "container")]
         \o [i \in 1..Len(s.standalone) |-> WithType(s.standalone[i], "standalone")]
    ELSE [i \in 1..Len(s.currentElements) |-> WithType(s.currentElements[i], "element")]

\* the candidates of s whose label matches query
Matching(s, query) ==
    {i \in DOMAIN Candidates(s) :
        IsSubsequence(LowerText(query), LowerText(Candidates(s)[i].label))}

\* C17: for a non-empty query the Follow-mode match list holds only
\* candidates that match the query, the best 9 at most, by non-increasing
\* score with equal scores in discovery order; digit i is bound to the i-th
\* entry and no other key is bound.
C17_FollowMatchList ==
    state.active /\ state.mode = MODES.FOLLOW /\ state.followModeInput # <<>> =>
        LET query == state.followModeInput
            s == updateFollowModeResults(World).state
            matches == s.followModeMatches
            score(i) == fuzzyMatch(matches[i].label, query).score
            place(i) == CHOOSE c \in DOMAIN Candidates(state) : Candidates(state)[c] = matches[i]
        IN  /\ \A i \in DOMAIN matches :
                  \E c \in Matching(state, query) : Candidates(state)[c] = matches[i]
            /\ Len(matches) = Min(9, Cardinality(Matching(state, query)))
            /\ \A i, j \in DOMAIN matches :
                  i < j => \/ score(i) > score(j)
                           \/ score(i) = score(j) /\ place(i) < place(j)
            /\ DOMAIN s.keyToElement = {NUMBERS[i] : i \in DOMAIN matches}
            /\ \A i \in DOMAIN matches : s.keyToElement[NUMBERS[i]] = matches[i]

\* the selector resolves: it is selector syntax and matches a node
Resolves(selector) == ~InvalidSelector(selector) /\ DocumentContains(selector)

\* the hints of s mark the target with one of its keys, and that key is bound
\* to the target
HintedAndBound(s, selector) ==
    \E i \in DOMAIN s.overlay.hints :
        /\ s.overlay.hints[i].selector = selector
        /\ toLowerCase(s.overlay.hints[i].key) \in DOMAIN s.keyToElement
        /\ TargetOf(s.keyToElement[toLowerCase(s.overlay.hints[i].key)]) = selector

\* C18: in a render pass over targets of which some do not resolve (the
\* selector matches nothing or is not selector syntax), the targets that do
\* resolve still get their hint and their key: the first 9 valid containers at
\* the containers level, every element at the elements level.
C18_UnresolvedDropsOnlyItself ==
    state.active /\ state.overlay.exists =>
        /\ (\E i \in DOMAIN state.containers : ~Resolves(state.containers[i].selector)) =>
              LET s == renderContainers(World).state
              IN  /\ s.keyToElement = DigitBindings(state.containers)
                  /\ \A k \in DOMAIN s.keyToElement : HintedAndBound(s, TargetOf(s.keyToElement[k]))
        /\ /\ state.navigationLevel = "elements"
           /\ state.currentContainer # NoContainer
           /\ \E i \in DOMAIN state.currentElements : ~Resolves(state.currentElements[i].selector)
           => LET s == renderContainerElements(World, state.currentContainer).state
              IN  \A i \in DOMAIN state.currentElements :
                      Resolves(state.currentElements[i].selector) =>
                          HintedAndBound(s, state.currentElements[i].selector)

\* C19: the selector a surveyor generates for an element resolves, on the
\* unchanged document, to that element.
C19_SelectorRoundTrip ==
    probe.stage = "resolved" => probe.resolved = probe.element

\* C20: a cache hit returns an analysis that was computed for the page URL of the
\* request and by the provider and model current at the request; in particular a
\* page never receives the cached analysis of a page with another URL.
C20_CacheHitSamePage ==
    \A url \in Urls :
        LET answer == handleAnalyzePage(background, AnalyzePageMessage(url))
        IN  answer.hit =>
                answer.response = [url |-> url, provider |-> background.provider,
                                   model |-> background.model]

\* C21: a cached analysis is served only within five minutes of being stored: an
\* entry older than that is not returned as a hit.
C21_CacheExpires ==
    \A url \in Urls :
        LET message == AnalyzePageMessage(url)
            cacheKey == PageCacheKey(Interpolated(message, "url"), background.provider,
                                     background.model)
        IN  handleAnalyzePage(background, message).hit =>
                background.pageCache[cacheKey].age <= FiveMinutes

\* the links whose handler is running
Running == {i \in DOMAIN background.apiQueue : background.apiQueue[i].status = "running"}

\* C22: the queued requests are processed one at a time in arrival order: at
\* most one handler runs, only the oldest unsettled request has left the queue,
\* and when the provider was 'gemini' at the end of a request, the next request
\* starts at least REQUEST_DELAY (500 ms) later.
C22_QueueSequential ==
    /\ Cardinality(Running) <= 1
    /\ \A i \in DOMAIN background.apiQueue :
          background.apiQueue[i].status # "waiting" => i = 1
    /\ \A i \in DOMAIN background.apiQueue :
          /\ background.apiQueue[i].status = "waiting"
          /\ PreviousSettled(background, i)
          /\ background.lastEnd.gemini
          => background.lastEnd.elapsed >= REQUEST_DELAY

\* a request runs behind a waiting one, half a second or more after a request
\* ended under Gemini
C22_Witness ==
    /\ background.lastEnd.gemini
    /\ background.lastEnd.elapsed >= REQUEST_DELAY
    /\ Cardinality(Running) = 1
    /\ Len(background.apiQueue) > 1

\* C23: a call answered with 429 is retried after 1 s, then 2 s, then 4 s, and
\* only then fails with the rate-limit error.
C23_BackoffThreeWaits ==
    \A i \in DOMAIN background.apiQueue :
        LET request == background.apiQueue[i].request
        IN  /\ background.apiQueue[i].status = "running"
            /\ request.backoff = -1
            /\ RateLimitError(request, 429)
            => request.waited = <<1000, 2000, 4000>>

\* C24: when "Enable Annotations" is toggled in the popup, the message the popup
\* sends is handled by the content script of the active tab, after which the
\* engine is active if and only if the toggle is on and an API key is configured.
C24_PopupToggleReachesTab ==
    storageLoaded =>
        \A enabled \in BOOLEAN :
            LET p == popupToggleExtension(popup, enabled)
                w == handleMessage(World, notifyContentScript(p))
            IN  w.state.active = (enabled /\ getCurrentApiKey(p) # "")

\* C25: one toggle command turns an inactive engine active and an active engine
\* inactive, whatever keys were pressed in the tab before.
C25_ToggleFlips ==
    storageLoaded =>
        LET bg == toggleExtension(background)
            w == handleMessage(World, ToggleBrowse(bg))
        IN  w.state.active = ~state.active


\* reloadFullPage() of the page at url, seen from the service worker: clearCache
\* is handled, then analyzePage is chained behind the links that are not settled
ReloadQueued(bg, url) ==
    [clearCache(bg, [type |-> "clearCache"]) EXCEPT
        !.apiQueue = Append(@, Link(AnalyzePageMessage(url)))]

\* the links before the last one run to their end, every fetch answered 200
RECURSIVE Drained(_)
Drained(bg) ==
    IF Len(bg.apiQueue) <= 1 THEN bg
    ELSE LET head == bg.apiQueue[1]
         IN  CASE head.status = "waiting" -> Drained(requestStarted(bg, 1))
               [] head.status = "delaying" -> Drained(delayElapsed(bg, 1))
               [] head.request.backoff >= 0 -> Drained(retryFetch(bg, 1))
               [] OTHER -> Drained(fetchSettled(bg, 1, 200))

\* C26: whenever a page forces a reload, the analyzePage request of the reload is
\* not answered from the cache, also when earlier requests were queued or in
\* flight when the cache was cleared.
C26_ReloadIgnoresCache ==
    \A url \in Urls :
        ~handleAnalyzePage(Drained(ReloadQueued(background, url)), AnalyzePageMessage(url)).hit


(***************************************************************************)
(* sanitizeSelector() on selectors the page did not generate itself: the   *)
(* provider's answer names a selector of up to three segments, with and    *)
(* without :nth-child(), and the content script resolves it.               *)
(***************************************************************************)
NamedCompounds ==
    {Compound(tag, "", classes, nth) :
        tag \in {"section", "a"}, classes \in {<<>>, <<"item">>}, nth \in {0, 2}}

NamedSelectors ==
    {<<c>> : c \in NamedCompounds}
    \cup {<<c, d>> : c, d \in NamedCompounds}
    \cup {<<c, d, e>> : c, d, e \in NamedCompounds}

InitSanitize ==
    /\ state = InitialState
    /\ pending = <<>>
    /\ overlayTimers = 0
    /\ reactivateTimers = 0
    /\ storageLoaded = FALSE
    /\ entry = NoEntry
    /\ background = InitialBackground
    /\ popup = InitialPopup
    /\ layout = NoLayout
    /\ \E doc \in Documents, selector \in NamedSelectors :
          probe = [NoProbe EXCEPT !.stage = "generated", !.doc = doc, !.selector = selector]

NextSanitize == Resolve

SpecSanitize == InitSanitize /\ [][NextSanitize]_vars

\* the four candidates in their order: the selector verbatim, without its
\* pseudo-classes, the trailing two segments of that, and its final segment
SelectorCandidates(selector) ==
    LET stripped == [p \in DOMAIN selector |-> [selector[p] EXCEPT !.nth = 0]]
    IN  <<selector, stripped,
          SubSeq(stripped, Max(1, Len(stripped) - 1), Len(stripped)),
          SubSeq(stripped, Len(stripped), Len(stripped))>>

\* the first candidate that matches a live element, or null
FirstFound(doc, candidates) ==
    LET found == {i \in DOMAIN candidates : Finds(doc, candidates[i])}
    IN  IF found = {} THEN NullSelector
        ELSE candidates[CHOOSE i \in found : \A j \in found : i <= j]

\* C27: for every selector, sanitizeSelector returns the first of the four
\* candidates that matches a live element, and null only if none of them does.
C27_SanitizeTriesAllFour ==
    probe.selector # NullSelector =>
        sanitizeSelector(probe.selector, probe.doc) = FirstFound(probe.doc, SelectorCandidates(probe.selector))


\* the descriptors findInteractiveElementsInContainer() builds for the children
\* of a container of the document: the selector of generateSimpleSelector() and
\* the element itself (content.js 1655-1667)
SurveyedDescriptors(doc, container) ==
    LET children == ChildrenOf(doc, container)
    IN  [n \in 1..Len(children) |->
            [selector |-> generateSimpleSelector(doc, children[n], container),
             _element |-> children[n]]]

\* the element renderVimiumHintsUniversal() draws the hint of the n-th
\* descriptor on: the match numbered by the earlier uses of its selector, or the
\* last match (content.js 1797-1808)
HintDrawnOn(doc, elements, n) ==
    LET usageCount == Cardinality({j \in 1..(n - 1) : elements[j].selector = elements[n].selector})
        allMatches == querySelectorAll(doc, elements[n].selector)
    IN  IF allMatches = <<>> THEN NullElement
        ELSE allMatches[Min(usageCount, Len(allMatches) - 1) + 1]

\* the element activateElement() acts on for a descriptor whose hint was drawn
\* on domElement: what queryElementSafe() resolves, else the stored reference
\* (content.js 2647-2666)
ActivatedOn(doc, annotation, domElement) ==
    IF queryElementSafeIn(annotation.selector, doc) # NullElement
    THEN queryElementSafeIn(annotation.selector, doc)
    ELSE domElement

\* C28: for every child of the entered container whose hint is drawn, the
\* element activateElement acts on when its key is pressed is the element the
\* hint was drawn on, also when several descriptors share one selector.
C28_ActivatesHintedElement ==
    (probe.stage = "resolved" /\ probe.surveyor = "container") =>
        LET elements == SurveyedDescriptors(probe.doc, SurveyedContainer)
        IN  (\A n \in DOMAIN elements : ValidSyntax(elements[n].selector)) =>
                \A n \in DOMAIN elements :
                    HintDrawnOn(probe.doc, elements, n) # NullElement =>
                        ActivatedOn(probe.doc, elements[n], HintDrawnOn(probe.doc, elements, n))
                            = HintDrawnOn(probe.doc, elements, n)


\* the selectors of a sequence of descriptors
SelectorsOf(elements) == [i \in DOMAIN elements |-> elements[i].selector]

\* C29: at ContainersLevel no container is current and currentElements is empty;
\* at ElementsLevel the current container is the one that was entered, the one
\* of the last breadcrumb, and currentElements holds what the
\* survey of that container finds, which is also what entering a container
\* leaves in every reachable state.
C29_LazyContents ==
    /\ state.navigationLevel = "containers" =>
          state.currentContainer = NoContainer /\ state.currentElements = <<>>
    /\ state.navigationLevel = "elements" =>
          /\ state.currentContainer # NoContainer
          /\ state.breadcrumbTrail # <<>>
          /\ state.breadcrumbTrail[Len(state.breadcrumbTrail)].selector
                = state.currentContainer.selector
          /\ SelectorsOf(state.currentElements)
                = SelectorsOf(findInteractiveElementsInContainer(state.currentContainer))
    /\ \A container \in Range(state.containers) :
          LET w == enterContainer(World, container)
          IN  /\ w.state.navigationLevel = "elements"
              /\ w.state.currentContainer = container
              /\ SelectorsOf(w.state.currentElements)
                    = SelectorsOf(findInteractiveElementsInContainer(container))

\* a container was entered and its elements were found
C29_Witness ==
    /\ state.navigationLevel = "elements"
    /\ state.currentContainer \in Range(state.containers)
    /\ state.currentElements # <<>>


(***************************************************************************)
(* The overlap resolution on a row of hints of HINT_SIZE pixels: up to     *)
(* MaxBoxes hints, whose left edges lie on a grid that holds overlapping,  *)
(* touching, near and well separated placements.                           *)
(***************************************************************************)
HINT_SIZE == 26
MaxBoxes == 3
MaxLeft == 15

HintLefts == {Px(10 + 4 * k) : k \in 0..MaxLeft}

HintRows ==
    UNION {[1..n -> {Box(left, Px(20), Px(HINT_SIZE), Px(HINT_SIZE)) : left \in HintLefts}] :
              n \in 2..MaxBoxes}

InitLayout ==
    /\ state = InitialState
    /\ pending = <<>>
    /\ overlayTimers = 0
    /\ reactivateTimers = 0
    /\ storageLoaded = FALSE
    /\ entry = NoEntry
    /\ probe = NoProbe
    /\ background = InitialBackground
    /\ popup = InitialPopup
    /\ \E boxes \in HintRows : layout = [NoLayout EXCEPT !.stage = "collected", !.boxes = boxes]

\* resolveAllAnnotationOverlaps() on the collected boxes
ResolveOverlaps ==
    /\ layout.stage = "collected"
    /\ LET resolved == resolveAnnotationOverlaps(layout.boxes)
       IN  layout' = [layout EXCEPT !.stage = "placed", !.placed = resolved.boxes,
                                    !.passes = resolved.passes]
    /\ UNCHANGED <<state, pending, overlayTimers, reactivateTimers, storageLoaded, entry,
                   probe, background, popup>>

NextLayout == ResolveOverlaps

SpecLayout == InitLayout /\ [][NextLayout]_vars

\* the pairs of boxes that overlap, with the padding of the resolution
OverlappingPairs(boxes) ==
    {pair \in (DOMAIN boxes) \X (DOMAIN boxes) :
        pair[1] < pair[2] /\ boxesOverlap(boxes[pair[1]], boxes[pair[2]], Px(padding))}

\* the free space between two boxes of one row
GapBetween(box1, box2) == Max(box2.left - BoxRight(box1), box1.left - BoxRight(box2))

\* every two boxes are separated by more than the padding
WellSeparated(boxes) ==
    \A i, j \in DOMAIN boxes : i < j => GapBetween(boxes[i], boxes[j]) > Px(padding)

\* C30: the resolution ends within maxIterations passes, and boxes that are
\* pairwise separated by more than the padding are left where they are, with no
\* overlapping pair.
C30_LayoutTerminates ==
    layout.stage = "placed" =>
        /\ layout.passes <= maxIterations
        /\ WellSeparated(layout.boxes) =>
              layout.placed = layout.boxes /\ OverlappingPairs(layout.placed) = {}


(***************************************************************************)
(* Where a render pass places its hints (content.js 1146-1320, 1842-1874,  *)
(* 3344-3368): the badge of a container and the hint of an element, for a  *)
(* target rectangle that may lie partly or wholly outside the window.      *)
(* Lengths are in 1024ths of a pixel.                                      *)
(***************************************************************************)
WindowWidth == 1280
WindowHeight == 720
baseBadgeWidth == 55
badgePadding == 20

\* getVisibilityFactor(element) < 0.3, on whole pixels
isOffScreen(rect) ==
    LET visibleTop == Max(0, rect.top)
        visibleBottom == Min(Px(WindowHeight), BoxBottom(rect))
        visibleLeft == Max(0, rect.left)
        visibleRight == Min(Px(WindowWidth), BoxRight(rect))
        visibleHeight == Max(0, visibleBottom - visibleTop) \div Px(1)
        visibleWidth == Max(0, visibleRight - visibleLeft) \div Px(1)
        totalArea == (rect.height \div Px(1)) * (rect.width \div Px(1))
    IN  IF totalArea = 0 THEN TRUE
        ELSE 10 * visibleHeight * visibleWidth < 3 * totalArea

\* length * sizeScale
Scaled(length, rect) == IF isOffScreen(rect) THEN (length * 7) \div 10 ELSE length

\* the badge showContainerHint() draws for a target rectangle and a label
ContainerBadgeBox(rect, labelLength) ==
    LET badgeWidth == Scaled(Px(baseBadgeWidth), rect)
        badgeHeight == Scaled(Px(baseBadgeWidth), rect)
        labelWidth == Scaled(Px(Max(80, Min(400, labelLength * 9 + 40))), rect)
        totalWidth == badgeWidth + labelWidth + Px(15)
        pad == Px(badgePadding)
        above == rect.top - badgeHeight - Px(50) > pad
        below == BoxBottom(rect) + badgeHeight + Px(50) < Px(WindowHeight) - pad
        leftSide == rect.left - totalWidth - pad > pad
        badgeX == IF above \/ below THEN rect.left + rect.width \div 2 - badgeWidth \div 2
                  ELSE IF leftSide THEN rect.left - totalWidth - Px(25)
                  ELSE Min(BoxRight(rect) + Px(25), Px(WindowWidth) - totalWidth - pad)
        badgeY == IF above THEN rect.top - badgeHeight - Px(50)
                  ELSE IF below THEN BoxBottom(rect) + Px(25)
                  ELSE IF leftSide THEN rect.top + rect.height \div 2 - badgeHeight \div 2
                  ELSE Max(pad, Min(rect.top, Px(WindowHeight) - badgeHeight - pad))
    IN  Box(Max(pad, Min(badgeX, Px(WindowWidth) - totalWidth - pad)),
            Max(pad, Min(badgeY, Px(WindowHeight) - badgeHeight - pad)),
            totalWidth, badgeHeight)

\* the hint renderVimiumHintsUniversal() draws over a target rectangle
VimiumHintBox(rect) ==
    Box(rect.left + (rect.width - Px(HINT_SIZE)) \div 2,
        rect.top + (rect.height - Px(HINT_SIZE)) \div 2,
        Px(HINT_SIZE), Px(HINT_SIZE))

\* the target rectangles that are measured: inside the window, across its
\* edges and outside it
TargetRects ==
    {Box(Px(left), Px(top), Px(width), Px(height)) :
        left \in {-400, -10, 100, 600, 1270, 1400},
        top \in {-300, -10, 40, 300, 710, 900},
        width \in {40, 300},
        height \in {20, 200}}

LabelLengths == {4, 20, 60}

InitPlacement ==
    /\ state = InitialState
    /\ pending = <<>>
    /\ overlayTimers = 0
    /\ reactivateTimers = 0
    /\ storageLoaded = FALSE
    /\ entry = NoEntry
    /\ probe = NoProbe
    /\ background = InitialBackground
    /\ popup = InitialPopup
    /\ \E rect \in TargetRects : layout = [NoLayout EXCEPT !.stage = "measured", !.boxes = <<rect>>]

\* a render pass draws the badge of the target as a container
PlaceContainerBadge ==
    /\ layout.stage = "measured"
    /\ \E labelLength \in LabelLengths :
          layout' = [layout EXCEPT !.stage = "badge",
                                   !.placed = <<ContainerBadgeBox(layout.boxes[1], labelLength)>>]
    /\ UNCHANGED <<state, pending, overlayTimers, reactivateTimers, storageLoaded, entry,
                   probe, background, popup>>

\* a render pass draws the hint of the target as an element
PlaceVimiumHint ==
    /\ layout.stage = "measured"
    /\ layout' = [layout EXCEPT !.stage = "hint", !.placed = <<VimiumHintBox(layout.boxes[1])>>]
    /\ UNCHANGED <<state, pending, overlayTimers, reactivateTimers, storageLoaded, entry,
                   probe, background, popup>>

NextPlacement == PlaceContainerBadge \/ PlaceVimiumHint

SpecPlacement == InitPlacement /\ [][NextPlacement]_vars

\* the box lies inside the window, pad away from every edge
InsideViewport(box, pad) ==
    /\ box.left >= pad
    /\ box.top >= pad
    /\ BoxRight(box) <= Px(WindowWidth) - pad
    /\ BoxBottom(box) <= Px(WindowHeight) - pad

\* C31: every hint a render pass places lies inside the viewport: a container
\* badge at least its padding away from every edge, an element hint inside the
\* window, whatever the rectangle of the target.
C31_HintsInsideViewport ==
    /\ layout.stage = "badge" => InsideViewport(layout.placed[1], Px(badgePadding))
    /\ layout.stage = "hint" => InsideViewport(layout.placed[1], 0)


(***************************************************************************)
(* The settings form of the popup: edits of the two key fields and of the  *)
(* provider, and the debounce timer they share.                            *)
(***************************************************************************)
PopupUntouched ==
    UNCHANGED <<state, pending, overlayTimers, reactivateTimers, storageLoaded, entry, probe,
                background, layout>>

FormFields == {"openaiApiKeyInput", "geminiApiKeyInput", "providerSelect"}

FieldValues(field) ==
    IF field = "providerSelect" THEN {"openai", "gemini"} ELSE {"", "sk-1", "sk-2"}

\* the user types into a key field or picks a provider
FieldEdited ==
    /\ \E field \in FormFields :
          \E value \in FieldValues(field) \ {popup[field]} :
              popup' = fieldEdited(popup, field, value)
    /\ PopupUntouched

\* the user stays idle until the debounce timer fires
SaveTimeoutFires ==
    /\ popup.saveTimeout # ""
    /\ popup' = saveTimeoutFired(popup)
    /\ PopupUntouched

NextDebounce == FieldEdited \/ SaveTimeoutFires

SpecDebounce == Init /\ [][NextDebounce]_vars

\* C32: once the user has been idle for the debounce interval, so that no save
\* timer is armed, the storage holds the latest value of every edited field.
C32_EditsPersisted ==
    popup.saveTimeout = "" =>
        /\ StorageGet(popup.storage, "openaiApiKey", "") = popup.openaiApiKeyInput
        /\ StorageGet(popup.storage, "geminiApiKey", "") = popup.geminiApiKeyInput
        /\ StorageGet(popup.storage, "provider", "openai") = popup.providerSelect


\* the requests whose handler awaits fetchWithRetry()
Retrying == {i \in DOMAIN background.apiQueue :
                background.apiQueue[i].status = "running" /\ background.apiQueue[i].request.retries}

PressOf(label) == KeyEvent(label, FALSE, label \in Range(EXTENDED_KEYS), FALSE)

\* the element hints drawn and still shown on the overlay
ShownElementHints ==
    {i \in DOMAIN state.overlay.hints :
        /\ state.overlay.hints[i].class = "browse-vimium-hint"
        /\ ~state.overlay.hints[i].hidden}

\* C34: at the element level in Normal mode, for every element hint shown
\* with label k, the key press that produces k (Shift with the letter for an
\* upper-case label) does what activating the element under that hint does,
\* and nothing else: the key is bound to that element and to no other, and
\* the press changes neither the mode nor the page analysis.
C34_HintKeyActivatesItsElement ==
    (Normal /\ state.navigationLevel = "elements") =>
        \A i \in ShownElementHints :
            LET hint == state.overlay.hints[i]
                bound == toLowerCase(PressOf(hint.key).key)
            IN  /\ bound \in DOMAIN state.keyToElement
                /\ TargetOf(state.keyToElement[bound]) = hint.selector
                /\ \E n \in DOMAIN state.currentElements :
                      /\ state.currentElements[n].selector = hint.selector
                      /\ handleKeyDown(World, PressOf(hint.key))
                           = activateElement(World, state.currentElements[n],
                                             toLowerCase(hint.key))

\* C35: in Normal mode the key map agrees with the level in every reachable
\* state, the ones reached while a page re-analysis is outstanding included:
\* at the container level every binding is a container, at the element level
\* every binding is an element found in the current container.
C35_KeyMapMatchesLevel ==
    Normal =>
        \A key \in DOMAIN state.keyToElement :
            LET item == state.keyToElement[key]
            IN  IF state.navigationLevel = "containers"
                THEN item.type = "container"
                ELSE /\ item.type = "element"
                     /\ \E n \in DOMAIN state.currentElements :
                            state.currentElements[n].selector = TargetOf(item)

\* C36: whenever the engine is active its overlay exists and is attached to
\* the document, whatever the order of the delayed overlay removal started by
\* deactivate() and a later activate().
C36_ActiveHasOverlay ==
    state.active => state.overlay.exists

\* C37: in Follow mode the match list is the one of the current query after
\* every keystroke: followModeMatches equals findMatchesForFollow of
\* followModeInput (empty for the empty query), followModeSelectedIndex is an
\* index of the list whenever the list is not empty, and Enter activates a
\* match of the current query or, when the query has none, nothing.
C37_MatchesFollowQuery ==
    state.active /\ state.mode = MODES.FOLLOW =>
        LET current == findMatchesForFollow(state, state.followModeInput)
            entered == handleKeyDown(World, Plain("Enter"))
        IN  /\ state.followModeMatches = current
            /\ state.followModeMatches # <<>> =>
                  state.followModeSelectedIndex \in 0..(Len(state.followModeMatches) - 1)
            /\ IF current = <<>> THEN entered = World
               ELSE \E i \in DOMAIN current :
                        entered = exitFollowMode(activateElement(World, current[i], "follow"))

\* the match Enter acts on, when Follow mode has one
SelectedMatch == state.followModeMatches[state.followModeSelectedIndex + 1]

\* C38: Enter on a container match in Follow mode at the container level
\* does what the container's digit does in Normal mode: the level becomes
\* the element level of that container, with the container's elements and one
\* more breadcrumb, and the mode is Normal again.
C38_EnterOnContainerEnters ==
    (/\ state.active /\ state.mode = MODES.FOLLOW
     /\ state.navigationLevel = "containers"
     /\ state.followModeSelectedIndex < Len(state.followModeMatches)
     /\ SelectedMatch.type = "container") =>
        LET after == handleKeyDown(World, Plain("Enter")).state
        IN  /\ after.mode = MODES.NORMAL
            /\ after.navigationLevel = "elements"
            /\ after.currentContainer # NoContainer
            /\ after.currentContainer.selector = SelectedMatch.selector
            /\ after.currentElements
                 = enterContainer(World, SelectedMatch).state.currentElements
            /\ Len(after.breadcrumbTrail) = Len(state.breadcrumbTrail) + 1

(***************************************************************************)
(* The request queue with a request whose handler throws: the page sends   *)
(* well-formed requests and a findAdditionalContainers request without its *)
(* lists, to an OpenAI or a Gemini provider that answers 200.              *)
(***************************************************************************)
FailingRequests ==
    QueuedRequests \cup {BareFindAdditionalContainersMessage("https://a.example/")}

NextFailing ==
    \/ RequestReceived(FailingRequests)
    \/ RequestRuns
    \/ FetchSettled({200})
    \/ DelayElapsed
    \/ StorageChanged(DefaultSettings, {})
    \/ TimePasses({500})

SpecFailing == InitQueue /\ [][NextFailing]_vars

\* C39: a failed request does not poison the queue: every queued request has
\* its own handler called and is answered with that handler's result or
\* error, so no link of the chain settles by passing on the error of an
\* earlier link without calling its requestFn.
C39_FailureDoesNotPoison ==
    \A i \in DOMAIN background.apiQueue :
        background.apiQueue[i].status # "rejecting"

CtrlShiftR == KeyEvent("R", TRUE, TRUE, FALSE)

\* C40: while a macro with at least one recorded action is being recorded,
\* Ctrl+Shift+R runs the save path (the name prompt, then the write of the
\* recorded actions) and leaves macroRecording false and currentMacro empty;
\* Escape ends the recording without the save path.
C40_ToggleOffSavesMacro ==
    (Normal /\ state.macroRecording /\ state.currentMacro # <<>>) =>
        LET toggled == handleKeyDown(World, CtrlShiftR).state
            cancelled == handleKeyDown(World, Plain("Escape")).state
        IN  /\ toggleMacroRecordingPrompts(World)
            /\ ~toggled.macroRecording
            /\ toggled.currentMacro = <<>>
            /\ ~stopMacroRecordingPrompts(World, FALSE)
            /\ ~cancelled.macroRecording
            /\ cancelled.currentMacro = <<>>

====
